---------------------------- MODULE Spec2Model ----------------------------
(* Mixing automation service: analyze -> suggest -> preview -> apply /     *)
(* revert.  A state machine of music_create.mixing.service.MixingService,  *)
(* its mixer graph, FX parameter registry and suggestion strategies.       *)
(*                                                                         *)
(* Numbers.  The program computes with binary floats; the model computes   *)
(* in fixed point.  Effect parameters are integers in units of 1/1000,     *)
(* scores in units of 1/10000, dry_wet in units of 1/MixDen.               *)
EXTENDS Integers, Sequences, FiniteSets, TLC

None == "None"

(***************************************************************************)
(* Bounds of the model.                                                    *)
(***************************************************************************)
MaxSuggestionsPerTrack == 3   \* suggestions stored for one track
MaxAnalyses == 2          \* analysis jobs submitted
MaxCommands == 2          \* commands created by apply

(***************************************************************************)
(* Inputs.                                                                 *)
(***************************************************************************)
TrackIds == {"kick", "snare"}
MixDen == 4
DryWets == {0, 2, 4, 5}               \* dry_wet * MixDen: 0, 0.5, 1, 1.25

(***************************************************************************)
(* fx.py: the registry of the four built-in effects.                       *)
(***************************************************************************)
BuiltinEffectType == {"eq", "compressor", "gate", "saturator"}

ParameterSpec(p, d, lo, hi) ==
    [param_id |-> p, default |-> d, minimum |-> lo, maximum |-> hi]

EFFECT_SPECS ==
    [e \in BuiltinEffectType |->
       CASE e = "eq" ->
              << ParameterSpec("low_gain_db", 0, -18000, 18000),
                 ParameterSpec("mid_gain_db", 0, -18000, 18000),
                 ParameterSpec("high_gain_db", 0, -18000, 18000),
                 ParameterSpec("low_freq_hz", 120000, 20000, 400000),
                 ParameterSpec("high_freq_hz", 5000000, 1500000, 12000000) >>
         [] e = "compressor" ->
              << ParameterSpec("threshold_db", -18000, -60000, 0),
                 ParameterSpec("ratio", 3000, 1000, 20000),
                 ParameterSpec("attack_ms", 12000, 100, 100000),
                 ParameterSpec("release_ms", 120000, 5000, 1000000),
                 ParameterSpec("makeup_db", 0, 0, 24000) >>
         [] e = "gate" ->
              << ParameterSpec("threshold_db", -40000, -80000, 0),
                 ParameterSpec("attack_ms", 2000, 100, 50000),
                 ParameterSpec("release_ms", 120000, 5000, 500000) >>
         [] e = "saturator" ->
              << ParameterSpec("drive", 0, 0, 1000),
                 ParameterSpec("mix", 0, 0, 1000) >>]

ParamIds(e) == {EFFECT_SPECS[e][i].param_id : i \in 1..Len(EFFECT_SPECS[e])}

\* A float is its value in the unit of its field; the IEEE-754 values that
\* are not finite are kept apart from every finite value.  json.loads reads
\* NaN, Infinity and 1e999 as such values.
NaN == 2000000000
PosInf == 1000000000
\* a < b on floats: every comparison with NaN is false
Less(a, b) == a # NaN /\ b # NaN /\ a < b

\* min(a, b) and max(a, b): the second argument wins only when it compares
\* below (above) the first
Min(a, b) == IF Less(b, a) THEN b ELSE a
Max(a, b) == IF Less(a, b) THEN b ELSE a

default_fx_chain ==
    [effects |->
       [e \in BuiltinEffectType |->
          [effect_type |-> e,
           parameters |->
             [p \in ParamIds(e) |->
                LET i == CHOOSE j \in 1..Len(EFFECT_SPECS[e]) :
                           EFFECT_SPECS[e][j].param_id = p
                IN  EFFECT_SPECS[e][i].default]]]]

\* A raised exception is a record with an "error" field.
Raise(kind) == [error |-> kind]
IsError(x) == "error" \in DOMAIN x

\* clamp_param scans the spec's parameters in order; the first one with the
\* id decides.  KeyError when no parameter has the id.
RECURSIVE ClampScan(_, _, _, _)
ClampScan(specs, i, param_id, value) ==
    IF i > Len(specs) THEN Raise("KeyError")
    ELSE IF specs[i].param_id = param_id
         THEN [value |-> Min(Max(value, specs[i].minimum), specs[i].maximum)]
         ELSE ClampScan(specs, i + 1, param_id, value)

clamp_param(effect_type, param_id, value) ==
    ClampScan(EFFECT_SPECS[effect_type], 1, param_id, value)

\* dict helpers: a dict is a function on its key set
Put(d, k, v) == [x \in DOMAIN d \cup {k} |-> IF x = k THEN v ELSE d[x]]
\* seeded fault: the entry is read and left in place
Got(d, k) == d
Pop(d, k) == [x \in DOMAIN d \ {k} |-> d[x]]
EmptyDict == [x \in {} |-> None]

(***************************************************************************)
(* service.py: _apply_param_updates.  updates is the dict of dicts in      *)
(* insertion order: a sequence of <<effect_type, <<param_id, target>>...>>.*)
(* The result is the updated chain, or KeyError when a parameter id is     *)
(* not in the effect's parameters (the partially updated copy is lost).    *)
(***************************************************************************)
NormalizedMix(dry_wet) == Min(Max(dry_wet, 0), MixDen)

\* current + (target - current) * mix; inf - x = inf, inf * 0.0 = nan,
\* x + inf = inf, and NaN in gives NaN out
Blend(current_value, target_value, normalized_mix) ==
    IF current_value = NaN \/ target_value = NaN THEN NaN
    ELSE IF target_value \in {PosInf, -PosInf}
         THEN IF normalized_mix = 0 THEN NaN ELSE target_value
    ELSE current_value + ((target_value - current_value) * normalized_mix) \div MixDen

RECURSIVE ApplyEffectUpdates(_, _, _, _, _)
ApplyEffectUpdates(chain, effect_type, effect_updates, i, normalized_mix) ==
    IF IsError(chain) \/ i > Len(effect_updates) THEN chain
    ELSE LET param_id == effect_updates[i][1]
             target_value == effect_updates[i][2]
             parameters == chain.effects[effect_type].parameters
         IN  IF param_id \notin DOMAIN parameters THEN Raise("KeyError")
             ELSE LET blended_value ==
                        Blend(parameters[param_id], target_value, normalized_mix)
                      clamped == clamp_param(effect_type, param_id, blended_value)
                  IN  IF IsError(clamped) THEN clamped
                      ELSE ApplyEffectUpdates(
                             [chain EXCEPT !.effects[effect_type].parameters[param_id] =
                                             clamped.value],
                             effect_type, effect_updates, i + 1, normalized_mix)

RECURSIVE ApplyUpdatesFrom(_, _, _, _)
ApplyUpdatesFrom(chain, updates, k, normalized_mix) ==
    IF IsError(chain) \/ k > Len(updates) THEN chain
    ELSE ApplyUpdatesFrom(
           ApplyEffectUpdates(chain, updates[k][1], updates[k][2], 1, normalized_mix),
           updates, k + 1, normalized_mix)

_apply_param_updates(chain, updates, dry_wet) ==
    ApplyUpdatesFrom(chain, updates, 1, NormalizedMix(dry_wet))

(***************************************************************************)
(* analysis.py: the signal of a track and the features extracted from it.  *)
(* The signal of kick and of snare is a recording named by its shape, and  *)
(* extract_features is the table of the feature vectors of those shapes;   *)
(* the signal of any other track is the buffer of the default provider,    *)
(* [0.0] * 2048, kept as BufferLen samples, and its features are computed. *)
(* Units: samples 1/10000, band energies 1/100, centroid Hz, transient     *)
(* density and zero crossing rate 1/1000, every level in dB 1/10 dB.       *)
(***************************************************************************)
AnalysisModes == {"quick", "full"}

BufferLen == 7

track_signal_provider(track_id) ==
    CASE track_id = "kick" -> [recording |-> "transient", samples |-> << >>]
      [] track_id = "snare" -> [recording |-> "quiet", samples |-> << >>]
      [] OTHER -> [recording |-> "", samples |-> [i \in 1..BufferLen |-> 0]]

\* 20.0 * math.log10(max(value, 1e-8)) of an amplitude that is zero or a
\* power of ten
_amp_to_db(value) ==
    IF value = 0 THEN -1600
    ELSE 200 * (CHOOSE k \in 0..4 : 10^k = value) - 800

\* _extract_quick and _extract_full on a buffer whose samples have one
\* magnitude (sorted(abs_samples) is abs_samples, and math.sqrt is exact);
\* _full_band_energies filters with lp = 0.97 * lp + 0.03 * sample, which
\* is computed for a silent buffer only
ExtractFrom(signal, mode) ==
    LET n == Len(signal)
        RECURSIVE Sum(_, _)
        Sum(f, i) == IF i > n THEN 0 ELSE f[i] + Sum(f, i + 1)
        abs_samples == [i \in 1..n |-> IF signal[i] < 0 THEN -signal[i] ELSE signal[i]]
        peak == CHOOSE a \in {abs_samples[i] : i \in 1..n} :
                   \A i \in 1..n : abs_samples[i] <= a
        mean_square == Sum([i \in 1..n |-> signal[i] * signal[i]], 1) \div n
        rms == CHOOSE r \in 0..peak : r * r = mean_square
        Bucket(k) == IF mode = "quick"
                     THEN Sum([i \in 1..n |-> IF (i - 1) % 3 = k THEN abs_samples[i] ELSE 0], 1)
                     ELSE CHOOSE energy \in {0} : peak = 0
        low_bucket == Bucket(0)
        mid_bucket == Bucket(1)
        high_bucket == Bucket(2)
        total == low_bucket + mid_bucket + high_bucket
        bucket_sum == IF total = 0 THEN 10000 ELSE total
        Percentile(p) ==
            LET lower == (p * (n - 1)) \div 100
                upper == IF (p * (n - 1)) % 100 = 0 THEN lower ELSE lower + 1
            IN  abs_samples[lower + 1]
                  + (((p * (n - 1)) % 100) * (abs_samples[upper + 1] - abs_samples[lower + 1]))
                      \div 100
        dynamic_range == _amp_to_db(Percentile(95)) - _amp_to_db(Percentile(10))
        peak_db == _amp_to_db(peak)
        rms_db == _amp_to_db(rms)
        threshold == IF mode = "quick" THEN 600 ELSE 400
        Pairs(Test(_, _)) ==
            IF n < 2 THEN 0
            ELSE (1000 * Cardinality({i \in 1..n - 1 : Test(signal[i], signal[i + 1])}))
                   \div (n - 1)
        Jump(prev, cur) == cur - prev >= threshold \/ prev - cur >= threshold
        Crossing(prev, cur) == (prev < 0 /\ 0 <= cur) \/ (prev > 0 /\ 0 >= cur)
    IN  [lufs |-> rms_db - (IF mode = "quick" THEN 10 ELSE 5),
         peak_dbfs |-> peak_db,
         rms_dbfs |-> rms_db,
         crest_factor_db |-> peak_db - rms_db,
         spectral_centroid_hz |->
            IF mode = "quick"
            THEN (90 * low_bucket + 1200 * mid_bucket + 6500 * high_bucket) \div bucket_sum
            ELSE (120 * low_bucket + 1500 * mid_bucket + 8000 * high_bucket) \div bucket_sum,
         band_energy_low |-> (100 * low_bucket) \div bucket_sum,
         band_energy_mid |-> (100 * mid_bucket) \div bucket_sum,
         band_energy_high |-> (100 * high_bucket) \div bucket_sum,
         dynamic_range_db |-> dynamic_range,
         loudness_range_db |-> IF mode = "quick" THEN (dynamic_range * 75) \div 100
                               ELSE _amp_to_db(rms) - _amp_to_db(rms),
         transient_density |-> Pairs(Jump),
         zero_crossing_rate |-> Pairs(Crossing)]

extract_features(signal, mode) ==
    CASE signal.recording = "" /\ signal.samples = << >> ->
           [lufs |-> -700, peak_dbfs |-> -700, rms_dbfs |-> -700, crest_factor_db |-> 0,
            spectral_centroid_hz |-> 0, band_energy_low |-> 0, band_energy_mid |-> 0,
            band_energy_high |-> 0, dynamic_range_db |-> 0, loudness_range_db |-> 0,
            transient_density |-> 0, zero_crossing_rate |-> 0]
      [] signal.recording = "" /\ signal.samples # << >> ->
           ExtractFrom(signal.samples, mode)
      [] signal.recording = "transient" /\ mode = "quick" ->
           [band_energy_low |-> 30, spectral_centroid_hz |-> 2100,
            band_energy_high |-> 30, transient_density |-> 250,
            crest_factor_db |-> 95, dynamic_range_db |-> 120,
            loudness_range_db |-> 90]
      [] signal.recording = "transient" /\ mode = "full" ->
           [band_energy_low |-> 50, spectral_centroid_hz |-> 700,
            band_energy_high |-> 10, transient_density |-> 250,
            crest_factor_db |-> 95, dynamic_range_db |-> 200,
            loudness_range_db |-> 150]
      [] signal.recording = "quiet" /\ mode = "quick" ->
           [band_energy_low |-> 20, spectral_centroid_hz |-> 3000,
            band_energy_high |-> 50, transient_density |-> 50,
            crest_factor_db |-> 40, dynamic_range_db |-> 80,
            loudness_range_db |-> 60]
      [] OTHER ->
           [band_energy_low |-> 33, spectral_centroid_hz |-> 1500,
            band_energy_high |-> 33, transient_density |-> 100,
            crest_factor_db |-> 60, dynamic_range_db |-> 195,
            loudness_range_db |-> 146]

\* run_analysis: the snapshot's features, one entry per submitted signal
run_analysis(mode, track_signals) ==
    [analysis_id |-> 0, mode |-> mode,
     track_features |->
       [t \in DOMAIN track_signals |-> extract_features(track_signals[t], mode)]]

(***************************************************************************)
(* suggestions.py: the rule-based generator.                               *)
(***************************************************************************)
Profiles == {"clean", "punch", "warm"}

\* seeded fault: the drums test is made before the bass test
_infer_role_drums_first(features) ==
    IF features.transient_density > 180 /\ features.crest_factor_db > 80
      THEN "drums"
    ELSE IF features.band_energy_low >= 44 /\ features.spectral_centroid_hz < 900
      THEN "bass"
    ELSE IF features.band_energy_high > 42 /\ features.spectral_centroid_hz > 2500
      THEN "lead"
    ELSE "harmonic"
_infer_role(features) ==
    IF features.band_energy_low >= 44 /\ features.spectral_centroid_hz < 900
      THEN "bass"
    ELSE IF features.transient_density > 180 /\ features.crest_factor_db > 80
      THEN "drums"
    ELSE IF features.band_energy_high > 42 /\ features.spectral_centroid_hz > 2500
      THEN "lead"
    ELSE "harmonic"

_build_variants(profile, role, features) ==
    LET profile_gain == CASE profile = "clean" -> 500 [] profile = "punch" -> 800
                          [] profile = "warm" -> 600
        role_bias == CASE role = "bass" -> 900 [] role = "drums" -> 1000
                       [] role = "lead" -> 700 [] role = "harmonic" -> 600
        gate0 == IF features.dynamic_range_db > 190 THEN -58000 ELSE -45000
        gate_threshold == IF role = "drums" THEN gate0 - 4000 ELSE gate0
        base_ratio == IF profile = "clean" THEN 2400
                      ELSE IF profile = "punch" THEN 4200 ELSE 3200
        eq0 == IF profile = "clean" THEN 1800
               ELSE IF profile = "punch" THEN 1100 ELSE -600
        eq1 == IF role = "bass" THEN eq0 - 1200 ELSE eq0
        base_eq_high == IF role = "lead" THEN eq1 + 800 ELSE eq1
        sat0 == IF profile = "clean" THEN 80
                ELSE IF profile = "punch" THEN 260 ELSE 340
        base_sat == IF role = "drums" THEN sat0 + 80 ELSE sat0
        transient_push == Min(Max((features.transient_density - 80) * 18, 0), 1800)
        lra_push == Min(Max((features.loudness_range_db - 70) * 12, 0), 1000)
    IN << [variant |-> "balanced",
           score |-> 7800 + profile_gain + role_bias + lra_push,
           param_updates |->
             << <<"eq", << <<"high_gain_db", base_eq_high>> >> >>,
                <<"compressor", << <<"ratio", base_ratio>>,
                                   <<"threshold_db", -20000 - transient_push>> >> >>,
                <<"gate", << <<"threshold_db", gate_threshold>> >> >>,
                <<"saturator", << <<"mix", base_sat>> >> >> >>],
          [variant |-> "tight",
           score |-> 7500 + profile_gain + transient_push + (role_bias * 9) \div 10,
           param_updates |->
             << <<"eq", << <<"high_gain_db", base_eq_high - 500>> >> >>,
                <<"compressor", << <<"ratio", base_ratio + 800>>,
                                   <<"threshold_db", -23000>> >> >>,
                <<"gate", << <<"threshold_db", gate_threshold - 3000>> >> >>,
                <<"saturator", << <<"mix", Min(base_sat + 80, 900)>> >> >> >>],
          [variant |-> "wide",
           score |-> 7200 + profile_gain + features.band_energy_high * 9,
           param_updates |->
             << <<"eq", << <<"high_gain_db", base_eq_high + 700>> >> >>,
                <<"compressor", << <<"ratio", Max(base_ratio - 700, 1200)>>,
                                   <<"threshold_db", -18000>> >> >>,
                <<"gate", << <<"threshold_db", gate_threshold + 4000>> >> >>,
                <<"saturator", << <<"mix", Max(base_sat - 60, 20)>> >> >> >>] >>

\* list.sort(key=score, reverse=True) on a short list: the list is reversed,
\* sorted ascending and stable (the run at its start is found, reversed when
\* strictly descending, and the rest is inserted by binary search), and
\* reversed again.  Every comparison is key < key.
Reverse(s) == [i \in 1..Len(s) |-> s[Len(s) + 1 - i]]

\* the last index of the run that starts at 1 and has reached index k
RECURSIVE RunEnd(_, _, _)
RunEnd(items, k, descending) ==
    IF k = Len(items) THEN k
    ELSE IF Less(items[k + 1].score, items[k].score) = descending
         THEN RunEnd(items, k + 1, descending)
         ELSE k

\* the number of items of sorted[l+1..r] the pivot goes behind, plus l
RECURSIVE BinarySearch(_, _, _, _)
BinarySearch(sorted, pivot, l, r) ==
    IF l >= r THEN l
    ELSE LET p == l + (r - l) \div 2 IN
         IF Less(pivot.score, sorted[p + 1].score)
         THEN BinarySearch(sorted, pivot, l, p)
         ELSE BinarySearch(sorted, pivot, p + 1, r)

RECURSIVE BinarySort(_, _)
BinarySort(sorted, rest) ==
    IF rest = << >> THEN sorted
    ELSE LET l == BinarySearch(sorted, rest[1], 0, Len(sorted)) IN
         BinarySort(SubSeq(sorted, 1, l) \o << rest[1] >>
                        \o SubSeq(sorted, l + 1, Len(sorted)),
                    Tail(rest))

SortAscending(items) ==
    IF Len(items) < 2 THEN items
    ELSE LET descending == Less(items[2].score, items[1].score)
             n == RunEnd(items, 2, descending)
             run == SubSeq(items, 1, n)
         IN  BinarySort(IF descending THEN Reverse(run) ELSE run,
                        SubSeq(items, n + 1, Len(items)))

SortByScoreDesc(items) == Reverse(SortAscending(Reverse(items)))

TopN == 3
FirstThree(items) == SubSeq(items, 1, Min(Len(items), TopN))

\* The suggestions without their ids; the service's caller numbers them.
\* reason is the text as a sequence of pieces.
suggest_from_features(track_id, profile, features) ==
    LET role == _infer_role(features)
        variants == FirstThree(SortByScoreDesc(_build_variants(profile, role, features)))
    IN  [i \in 1..Len(variants) |->
           [track_id |-> track_id,
            profile |-> profile,
            variant |-> variants[i].variant,
            score |-> variants[i].score,
            reason |-> << "profile=", profile, ", role=", role >>,
            param_updates |-> variants[i].param_updates]]

(***************************************************************************)
(* State of one MixingService with its mixer graph and the analysis pool.  *)
(***************************************************************************)
VARIABLES
    tracks,                 \* MixerGraph.tracks: track_id -> MixerTrackState
    suggestion_mode,        \* _suggestion_mode
    fallback_to_rule_on_llm_error,
    llm_suggester,          \* _llm_suggester: the remote strategy's settings
    last_suggestion_source,
    last_suggestion_fallback_reason,
    analysis_jobs,          \* _analysis_jobs: analysis_id -> future
    analysis_results,       \* _analysis_results: analysis_id -> snapshot
    suggestions,            \* _suggestions: suggestion_id -> Suggestion
    commands,               \* _commands: command_id -> SuggestionCommand
    command_order,          \* _command_order
    preview_cache,          \* _preview_cache: track_id -> baseline chain
    uuids,                  \* uuid4 draws so far, per kind of id
    waiting,                \* the suggest call blocked in get_snapshot, if any
    ret,                    \* outcome of the last service call
    pv                      \* per track: the previews since the last
                            \* cancel_preview / apply / revert of the track

vars == << tracks, suggestion_mode, fallback_to_rule_on_llm_error, llm_suggester,
           last_suggestion_source, last_suggestion_fallback_reason,
           analysis_jobs, analysis_results, suggestions, commands,
           command_order, preview_cache, uuids, waiting, ret, pv >>

config == << suggestion_mode, fallback_to_rule_on_llm_error, llm_suggester >>
source_vars == << last_suggestion_source, last_suggestion_fallback_reason >>
analysis_vars == << analysis_jobs, analysis_results >>
command_vars == << commands, command_order >>

\* ids: uuid4 values are numbered in the order they are drawn; 0 stands for
\* an id the service never issued
UnknownId == 0

MixerTrackState(track_id) ==
    [track_id |-> track_id, input_gain_db |-> 0, fx_chain |-> default_fx_chain,
     fader_db |-> 0, pan |-> 0, sends |-> << >>]

\* MixerGraph.ensure_track: the graph after the call
ensure_track(graph, track_id) ==
    IF track_id \in DOMAIN graph THEN graph
    ELSE Put(graph, track_id, MixerTrackState(track_id))

\* The outcome of a call: its name, the exception raised (or None), the id
\* returned, the suggestions returned, the strategies run in the call and
\* what each raised, and what the caller saw when it made the call.
Return(op, value) ==
    [op |-> op, error |-> None, value |-> value,
     returned |-> << >>, trace |-> << >>, at_call |-> << >>,
     transport_calls |-> 0]
Fail(op, kind) ==
    [op |-> op, error |-> kind, value |-> 0,
     returned |-> << >>, trace |-> << >>, at_call |-> << >>,
     transport_calls |-> 0]


Init ==
    /\ tracks = EmptyDict
    /\ suggestion_mode \in {"rule-based", "llm-based"}
    /\ fallback_to_rule_on_llm_error \in BOOLEAN
    /\ llm_suggester \in {[endpoint |-> ""], [endpoint |-> "https://llm.example.local"]}
    /\ last_suggestion_source = suggestion_mode
    /\ last_suggestion_fallback_reason = None
    /\ analysis_jobs = EmptyDict
    /\ analysis_results = EmptyDict
    /\ suggestions = EmptyDict
    /\ commands = EmptyDict
    /\ command_order = << >>
    /\ preview_cache = EmptyDict
    /\ uuids = [analysis |-> 0, suggestion |-> 0, command |-> 0]
    /\ waiting = << >>
    /\ ret = Return("init", 0)
    /\ pv = EmptyDict

(***************************************************************************)
(* preview / cancel_preview / apply / revert                               *)
(***************************************************************************)
\* seeded fault: the track of the suggestion is not compared
_get_any_suggestion(suggestion_id, track_id) ==
    IF suggestion_id \notin DOMAIN suggestions THEN Raise("KeyError")
    ELSE suggestions[suggestion_id]

\* _get_suggestion: the stored suggestion or the error raised
_get_suggestion(suggestion_id, track_id) ==
    IF suggestion_id \notin DOMAIN suggestions THEN Raise("KeyError")
    ELSE IF suggestions[suggestion_id].track_id # track_id THEN Raise("ValueError")
    ELSE suggestions[suggestion_id]

SuggestionsOf(track_id) ==
    {x \in DOMAIN suggestions : suggestions[x].track_id = track_id}
\* the store has room for a list of n more suggestions of the track
Room(track_id, n) ==
    Cardinality(SuggestionsOf(track_id)) + n <= MaxSuggestionsPerTrack

WithChain(graph, track_id, chain) ==
    [graph EXCEPT ![track_id].fx_chain = chain]

\* seeded fault: every preview blends from the live chain
LiveBaseline(graph, track_id) == graph[track_id].fx_chain

\* lines 127-130: the cached baseline, or the live chain on a first preview
PreviewBaseline(graph, track_id) ==
    IF track_id \in DOMAIN preview_cache
    THEN preview_cache[track_id]
    ELSE graph[track_id].fx_chain

Preview(track_id, suggestion_id, dry_wet) ==
    /\ waiting = << >>
    /\ LET suggestion == _get_suggestion(suggestion_id, track_id) IN
       IF IsError(suggestion)
       THEN /\ ret' = Fail("preview", suggestion.error)
            /\ UNCHANGED << tracks, preview_cache, pv >>
       ELSE LET graph == ensure_track(tracks, track_id)
                baseline == PreviewBaseline(graph, track_id)
                updated == _apply_param_updates(baseline, suggestion.param_updates, dry_wet)
            IN  /\ preview_cache' = Put(preview_cache, track_id, baseline)
                /\ IF IsError(updated)
                   THEN /\ tracks' = graph
                        /\ ret' = Fail("preview", updated.error)
                        /\ pv' = pv
                   ELSE /\ tracks' = WithChain(graph, track_id, updated)
                        /\ ret' = Return("preview", 0)
                        /\ pv' = Put(pv, track_id,
                                     [base |-> IF track_id \in DOMAIN pv
                                               THEN pv[track_id].base
                                               ELSE graph[track_id].fx_chain,
                                      suggestion_id |-> suggestion_id,
                                      dry_wet |-> dry_wet,
                                      repeated |-> track_id \in DOMAIN pv])
    /\ UNCHANGED << config, source_vars, analysis_vars, suggestions, command_vars,
                    uuids, waiting >>

\* seeded fault: the baseline is dropped without being written back
ForgottenGraph(graph, track_id) == graph

\* cancel_preview as a step of another call: the graph and cache after it
CancelledGraph(graph, track_id) ==
    IF track_id \in DOMAIN preview_cache
    THEN WithChain(ensure_track(graph, track_id), track_id, preview_cache[track_id])
    ELSE graph

\* what the caller of cancel_preview saw while previews were pending: the
\* live chain, the chain before the first of the previews, and whether
\* there were several
AtCancel(track_id) ==
    [track_id |-> track_id,
     live |-> tracks[track_id].fx_chain,
     first |-> pv[track_id].base,
     repeated |-> pv[track_id].repeated]

CancelPreview(track_id) ==
    /\ waiting = << >>
    /\ tracks' = CancelledGraph(tracks, track_id)
    /\ preview_cache' = Pop(preview_cache, track_id)
    /\ pv' = Pop(pv, track_id)
    /\ ret' = [Return("cancel_preview", 0) EXCEPT
                 !.at_call = IF track_id \in DOMAIN pv
                             THEN << AtCancel(track_id) >> ELSE << >>]
    /\ UNCHANGED << config, source_vars, analysis_vars, suggestions, command_vars,
                    uuids, waiting >>

\* what the caller of apply saw: the live chain of the track, the chain it
\* had before the previews that are pending (the live chain if none is),
\* and the suggestion of the last of them (UnknownId if none is)
AtApply(track_id) ==
    LET live == ensure_track(tracks, track_id)[track_id].fx_chain IN
    [track_id |-> track_id,
     live |-> live,
     committed |-> IF track_id \in DOMAIN pv THEN pv[track_id].base ELSE live,
     previewed |-> IF track_id \in DOMAIN pv THEN pv[track_id].suggestion_id
                   ELSE UnknownId]

\* seeded fault: apply records the chain it was called on, previews included
LiveBeforeChain(graph, track_id) == ensure_track(tracks, track_id)[track_id].fx_chain

\* seeded fault: apply records the chain of a fresh track
FreshBeforeChain(graph, track_id) == default_fx_chain

\* line 147: the chain apply records as before_chain and blends from
BeforeChain(graph, track_id) == graph[track_id].fx_chain

Apply(track_id, suggestion_id) ==
    /\ waiting = << >>
    /\ LET suggestion == _get_suggestion(suggestion_id, track_id) IN
       IF IsError(suggestion)
       THEN /\ ret' = Fail("apply", suggestion.error)
            /\ UNCHANGED << tracks, preview_cache, pv, command_vars, uuids >>
       ELSE LET graph == CancelledGraph(ensure_track(tracks, track_id), track_id)
                before == BeforeChain(graph, track_id)
                after == _apply_param_updates(before, suggestion.param_updates, MixDen)
                command_id == uuids.command + 1
            IN  /\ preview_cache' = Pop(preview_cache, track_id)
                /\ pv' = Pop(pv, track_id)
                /\ IF IsError(after)
                   THEN /\ tracks' = graph
                        /\ ret' = Fail("apply", after.error)
                        /\ UNCHANGED << command_vars, uuids >>
                   ELSE /\ uuids.command < MaxCommands
                        /\ tracks' = WithChain(graph, track_id, after)
                        /\ commands' = Put(commands, command_id,
                                           [command_id |-> command_id,
                                            track_id |-> track_id,
                                            suggestion_id |-> suggestion_id,
                                            created_at |-> command_id,
                                            before_chain |-> before,
                                            after_chain |-> after,
                                            applied |-> TRUE])
                        /\ command_order' = Append(command_order, command_id)
                        /\ uuids' = [uuids EXCEPT !.command = command_id]
                        /\ ret' = [Return("apply", command_id) EXCEPT
                                     !.at_call = << AtApply(track_id) >>]
    /\ UNCHANGED << config, source_vars, analysis_vars, suggestions, waiting >>

\* seeded fault: revert writes the chain of the apply
RedoneChain(command) == command.after_chain

\* line 168: the chain revert writes
RevertedChain(command) == command.before_chain

\* seeded fault: revert toggles the flag
ToggledFlag(command) == ~command.applied

\* line 169: the flag revert writes
RevertedFlag(command) == FALSE

\* seeded fault: an unknown id finds the newest command
_get_newest_command(command_id) ==
    IF command_id \in DOMAIN commands THEN commands[command_id]
    ELSE IF command_order = << >> THEN Raise("KeyError")
    ELSE commands[command_order[Len(command_order)]]

\* lines 163-165: the command of the id, or KeyError
_get_command(command_id) ==
    IF command_id \notin DOMAIN commands THEN Raise("KeyError")
    ELSE commands[command_id]

Revert(command_id) ==
    /\ waiting = << >>
    /\ IF IsError(_get_command(command_id))
       THEN /\ ret' = Fail("revert", "KeyError")
            /\ UNCHANGED << tracks, preview_cache, pv, commands >>
       ELSE LET command == _get_command(command_id)
                graph == ensure_track(tracks, command.track_id)
            IN  /\ tracks' = WithChain(graph, command.track_id, RevertedChain(command))
                /\ preview_cache' = Pop(preview_cache, command.track_id)
                /\ pv' = Pop(pv, command.track_id)
                /\ commands' = [commands EXCEPT
                                  ![command.command_id].applied = RevertedFlag(command)]
                /\ ret' = [Return("revert", command.command_id) EXCEPT
                             !.at_call = IF ret.op = "apply" /\ ret.error = None
                                            /\ ret.value = command_id
                                         THEN ret.at_call ELSE << >>]
    /\ UNCHANGED << config, source_vars, analysis_vars, suggestions, command_order,
                    uuids, waiting >>

\* seeded fault: the history is walked oldest first
unreversed(order) == order

\* line 173: reversed(self._command_order)
reversed(order) == [i \in 1..Len(order) |-> order[Len(order) + 1 - i]]

\* lines 174-177: the commands of the ids, those of other tracks skipped
RECURSIVE HistoryOf(_, _)
HistoryOf(ids, track_id) ==
    IF ids = << >> THEN << >>
    ELSE LET command == commands[Head(ids)] IN
         IF track_id # None /\ command.track_id # track_id
         THEN HistoryOf(Tail(ids), track_id)
         ELSE << command >> \o HistoryOf(Tail(ids), track_id)

\* get_command_history(track_id); track_id = None asks for every track
get_command_history(track_id) == HistoryOf(reversed(command_order), track_id)

(***************************************************************************)
(* analysis.py / service.py: analyze, the two-worker pool, get_snapshot    *)
(***************************************************************************)
MaxWorkers == 2

\* AnalysisSnapshot.new draws its own uuid4; get_snapshot overwrites it
OwnSnapshotId(analysis_id) == 100 + analysis_id

SignalsOf(track_ids) == [t \in track_ids |-> track_signal_provider(t)]

RECURSIVE EnsureAll(_, _)
EnsureAll(graph, track_ids) ==
    IF track_ids = {} THEN graph
    ELSE LET t == CHOOSE x \in track_ids : TRUE
         IN  EnsureAll(ensure_track(graph, t), track_ids \ {t})

\* submit_analysis_job: the future, queued in the executor
Submitted(mode, track_ids) ==
    [mode |-> mode, track_signals |-> SignalsOf(track_ids), state |-> "queued"]

Analyze(track_ids, mode) ==
    /\ waiting = << >>
    /\ IF mode \notin AnalysisModes
       THEN /\ ret' = Fail("analyze", "ValueError")
            /\ UNCHANGED << tracks, analysis_jobs, uuids >>
       ELSE /\ tracks' = EnsureAll(tracks, track_ids)
            /\ analysis_jobs' = Put(analysis_jobs, uuids.analysis + 1,
                                    Submitted(mode, track_ids))
            /\ uuids' = [uuids EXCEPT !.analysis = @ + 1]
            /\ ret' = Return("analyze", uuids.analysis + 1)
    /\ UNCHANGED << config, source_vars, analysis_results, suggestions, command_vars,
                    preview_cache, waiting, pv >>

Queued == {a \in DOMAIN analysis_jobs : analysis_jobs[a].state = "queued"}
Running == {a \in DOMAIN analysis_jobs : analysis_jobs[a].state = "running"}

\* seeded fault: a thread is started for every job
WorkerStartAnyway(analysis_id) ==
    /\ analysis_id \in Queued
    /\ \A a \in Queued : analysis_id <= a
    /\ analysis_jobs' = [analysis_jobs EXCEPT ![analysis_id].state = "running"]
    /\ UNCHANGED << tracks, config, source_vars, analysis_results, suggestions,
                    command_vars, preview_cache, uuids, waiting, ret, pv >>

\* a free worker takes the oldest queued job
WorkerStart(analysis_id) ==
    /\ analysis_id \in Queued
    /\ \A a \in Queued : analysis_id <= a
    /\ Cardinality(Running) < MaxWorkers
    /\ analysis_jobs' = [analysis_jobs EXCEPT ![analysis_id].state = "running"]
    /\ UNCHANGED << tracks, config, source_vars, analysis_results, suggestions,
                    command_vars, preview_cache, uuids, waiting, ret, pv >>

\* run_analysis returns; the future holds the snapshot
WorkerFinish(analysis_id) ==
    /\ analysis_id \in Running
    /\ analysis_jobs' = [analysis_jobs EXCEPT ![analysis_id].state = "done"]
    /\ UNCHANGED << tracks, config, source_vars, analysis_results, suggestions,
                    command_vars, preview_cache, uuids, waiting, ret, pv >>

JobResult(analysis_id) ==
    LET job == analysis_jobs[analysis_id]
        completed == run_analysis(job.mode, job.track_signals)
    IN  [completed EXCEPT !.analysis_id = OwnSnapshotId(analysis_id)]

\* get_snapshot would return without waiting
CanReturn(analysis_id) ==
    \/ analysis_id \in DOMAIN analysis_results
    \/ analysis_id \notin DOMAIN analysis_jobs
    \/ /\ analysis_id \in DOMAIN analysis_jobs
       /\ analysis_jobs[analysis_id].state = "done"

\* seeded fault: the stored result is not looked at and the job stays
get_snapshot_again(analysis_id) ==
    IF analysis_id \notin DOMAIN analysis_jobs
    THEN [snapshot |-> Raise("KeyError"),
          jobs |-> analysis_jobs, results |-> analysis_results]
    ELSE LET completed == [JobResult(analysis_id) EXCEPT !.analysis_id = analysis_id]
         IN  [snapshot |-> completed,
              jobs |-> analysis_jobs,
              results |-> Put(analysis_results, analysis_id, completed)]

\* get_snapshot: the snapshot returned (or the error) and the two dicts after
get_snapshot(analysis_id) ==
    IF analysis_id \in DOMAIN analysis_results
    THEN [snapshot |-> analysis_results[analysis_id],
          jobs |-> analysis_jobs, results |-> analysis_results]
    ELSE IF analysis_id \notin DOMAIN analysis_jobs
    THEN [snapshot |-> Raise("KeyError"),
          jobs |-> analysis_jobs, results |-> analysis_results]
    ELSE LET completed == [JobResult(analysis_id) EXCEPT !.analysis_id = analysis_id]
         IN  [snapshot |-> completed,
              jobs |-> Pop(analysis_jobs, analysis_id),
              results |-> Put(analysis_results, analysis_id, completed)]

GetSnapshot(analysis_id) ==
    /\ waiting = << >>
    /\ CanReturn(analysis_id)
    /\ LET got == get_snapshot(analysis_id) IN
       /\ analysis_jobs' = got.jobs
       /\ analysis_results' = got.results
       /\ ret' = IF IsError(got.snapshot)
                 THEN Fail("get_snapshot", got.snapshot.error)
                 ELSE [Return("get_snapshot", got.snapshot.analysis_id) EXCEPT
                         !.returned = << got.snapshot >>]
    /\ UNCHANGED << tracks, config, source_vars, suggestions, command_vars,
                    preview_cache, uuids, waiting, pv >>

(***************************************************************************)
(* suggestion_engine.py: engine modes and the remote strategy.             *)
(***************************************************************************)
\* str.strip().lower() on the names the model uses
StripLower(name) ==
    CASE name = " LLM " -> "llm"
      [] name = " EQ " -> "eq"
      [] OTHER -> name

\* the mode, or ValueError
normalize_suggestion_engine(mode) ==
    IF mode = None THEN [mode |-> "rule-based"]
    ELSE LET normalized == StripLower(mode) IN
         IF normalized \in {"rule", "rule-based", "rule_based"}
           THEN [mode |-> "rule-based"]
         ELSE IF normalized \in {"llm", "llm-based", "llm_based"}
           THEN [mode |-> "llm-based"]
         ELSE Raise("ValueError")

\* An exception text: the text and its length after strip()
Msg(text, length) == [text |-> text, length |-> length]
RaiseMsg(kind, msg) == [error |-> kind, message |-> msg]

\* JSON values of a response
Num(v) == [is_number |-> TRUE, v |-> v]
NotNum == [is_number |-> FALSE, v |-> 0]
Dict(items) == [is_dict |-> TRUE, items |-> items]
NotDict == [is_dict |-> FALSE, items |-> << >>]

\* dict assignment d[key] = value on a dict kept as a sequence of pairs
RECURSIVE SetItem(_, _, _)
SetItem(items, key, value) ==
    IF items = << >> THEN << <<key, value>> >>
    ELSE IF items[1][1] = key THEN << <<key, value>> >> \o Tail(items)
    ELSE << items[1] >> \o SetItem(Tail(items), key, value)

RECURSIVE ParseEffectParams(_, _)
ParseEffectParams(items, effect_params) ==
    IF items = << >> THEN effect_params
    ELSE ParseEffectParams(
           Tail(items),
           IF items[1][2].is_number
           THEN SetItem(effect_params, items[1][1], items[1][2].v)
           ELSE effect_params)

RECURSIVE ParseEffects(_, _)
ParseEffects(items, updates) ==
    IF items = << >> THEN updates
    ELSE LET effect_name == StripLower(items[1][1])
             params == items[1][2]
             effect_params == ParseEffectParams(params.items, << >>)
         IN  ParseEffects(
               Tail(items),
               IF effect_name \notin BuiltinEffectType \/ ~params.is_dict
                  \/ effect_params = << >>
               THEN updates
               ELSE SetItem(updates, effect_name, effect_params))

_parse_param_updates(raw) ==
    IF ~raw.is_dict THEN << >> ELSE ParseEffects(raw.items, << >>)

RECURSIVE ParseCandidates(_, _, _)
ParseCandidates(raw_candidates, track_id, profile) ==
    IF raw_candidates = << >> THEN << >>
    ELSE LET raw == raw_candidates[1]
             rest == ParseCandidates(Tail(raw_candidates), track_id, profile)
             param_updates == _parse_param_updates(raw.param_updates)
         IN  IF ~raw.is_dict \/ param_updates = << >> THEN rest
             ELSE << [track_id |-> track_id,
                      profile |-> profile,
                      variant |-> raw.variant,
                      score |-> IF raw.score.is_number THEN raw.score.v ELSE 0,
                      reason |-> << raw.reason >>,
                      param_updates |-> param_updates] >> \o rest

_parse_llm_response(track_id, profile, payload) ==
    IF ~payload.candidates_is_list THEN << >>
    ELSE FirstThree(SortByScoreDesc(
           ParseCandidates(payload.candidates, track_id, profile)))

\* LLMSuggestionEngine.generate with the transport's result for this call.
\* result.raises names the exception the transport raised, None if it
\* returned result.payload.
LLMGenerate(endpoint, track_id, profile, result) ==
    IF endpoint = "" THEN
      RaiseMsg("SuggestionEngineError", Msg("endpoint is not configured", 43))
    ELSE IF result.raises \in {"HTTPError", "URLError", "TimeoutError", "OSError"} THEN
      RaiseMsg("SuggestionEngineError",
               Msg("LLM request failed", 20 + result.message.length))
    ELSE IF result.raises = "JSONDecodeError" THEN
      RaiseMsg("SuggestionEngineError",
               Msg("LLM response decode failed", 28 + result.message.length))
    ELSE IF result.raises # None THEN
      RaiseMsg(result.raises, result.message)
    ELSE LET parsed == _parse_llm_response(track_id, profile, result.payload) IN
      IF parsed = << >>
      THEN RaiseMsg("SuggestionEngineError", Msg("no valid candidates", 41))
      ELSE [suggestions |-> parsed, transport_calls |-> 1]

(***************************************************************************)
(* service.py: suggest and _generate_suggestions                           *)
(***************************************************************************)
MaxReasonLen == 120

_format_fallback_reason(msg) ==
    IF msg.length = 0 THEN [text |-> "llm_error", length |-> 9, truncated |-> FALSE]
    ELSE IF msg.length > MaxReasonLen
      THEN [text |-> msg.text, length |-> MaxReasonLen, truncated |-> TRUE]
    ELSE [text |-> msg.text, length |-> msg.length, truncated |-> FALSE]

Ran(engine, raised) == [engine |-> engine, raised |-> raised]

\* seeded fault: the fallback switch is not read
FallbackAlways == TRUE

\* line 230: self._fallback_to_rule_on_llm_error
FallbackEnabled == fallback_to_rule_on_llm_error

\* seeded fault: the fallback leaves the reasons as the rules wrote them
WithoutFallback(list, fallback_reason) == list

\* lines 236-237
WithFallback(list, fallback_reason) ==
    [i \in 1..Len(list) |->
       [list[i] EXCEPT !.reason = @ \o << " | fallback=", fallback_reason.text >>]]

\* seeded fault: the reason of an earlier call is left in place
KeptReason ==
    IF last_suggestion_fallback_reason = None THEN << >>
    ELSE << [text |-> last_suggestion_fallback_reason] >>

\* line 220: the fallback reason is reset when generation starts
ResetReason == << >>

\* seeded fault: a failed request is sent once more
TransportRetried(endpoint, result) ==
    IF endpoint = "" THEN 0 ELSE IF result.raises # None THEN 2 ELSE 1

\* LLMSuggestionEngine.generate, lines 69-84: the times the transport is
\* invoked in one call
TransportCalls(endpoint, result) ==
    IF endpoint = "" THEN 0 ELSE 1

\* _generate_suggestions: what the call returns or raises, the two
\* inspection fields after it, and the strategies it ran, in order
_generate_suggestions(mode, track_id, profile, features, result) ==
    IF mode = "rule-based"
    THEN [suggestions |-> suggest_from_features(track_id, profile, features),
          error |-> None, source |-> "rule-based", fallback_reason |-> ResetReason,
          trace |-> << Ran("rule-based", None) >>, transport_calls |-> 0]
    ELSE LET llm == LLMGenerate(llm_suggester.endpoint, track_id, profile, result)
             calls == TransportCalls(llm_suggester.endpoint, result)
         IN
         IF ~IsError(llm)
         THEN [suggestions |-> llm.suggestions,
               error |-> None, source |-> "llm-based", fallback_reason |-> ResetReason,
               trace |-> << Ran("llm-based", None) >>, transport_calls |-> calls]
         ELSE IF ~FallbackEnabled
         THEN [suggestions |-> << >>,
               error |-> llm.error, source |-> last_suggestion_source,
               fallback_reason |-> ResetReason,
               trace |-> << Ran("llm-based", llm.error) >>,
               transport_calls |-> calls]
         ELSE LET fallback_reason == _format_fallback_reason(llm.message) IN
              [suggestions |->
                 WithFallback(suggest_from_features(track_id, profile, features),
                              fallback_reason),
               error |-> None, source |-> "rule-based-fallback",
               fallback_reason |-> << fallback_reason >>,
               trace |-> << Ran("llm-based", llm.error), Ran("rule-based", None) >>,
               transport_calls |-> calls]

\* the list with the uuid4 of each suggestion, drawn in list order
Numbered(list) ==
    [i \in 1..Len(list) |->
       [suggestion_id |-> uuids.suggestion + i,
        track_id |-> list[i].track_id, profile |-> list[i].profile,
        variant |-> list[i].variant, score |-> list[i].score,
        reason |-> list[i].reason, param_updates |-> list[i].param_updates]]

Stored(list) ==
    [x \in DOMAIN suggestions \cup {list[i].suggestion_id : i \in 1..Len(list)} |->
       IF x \in DOMAIN suggestions THEN suggestions[x]
       ELSE list[x - uuids.suggestion]]

\* the arguments of a suggest call that reached the strategies
AtSuggest(track_id, profile, analysis_id) ==
    [track_id |-> track_id, profile |-> profile, analysis_id |-> analysis_id]

\* suggest from the get_snapshot call on: lines 104-120
SuggestRest(track_id, profile, analysis_id, given, engine_mode, result) ==
    LET got == get_snapshot(analysis_id) IN
    IF IsError(got.snapshot)
    THEN /\ ret' = [Fail("suggest", got.snapshot.error) EXCEPT
                      !.at_call = << AtSuggest(track_id, profile, analysis_id) >>]
         /\ UNCHANGED << analysis_vars, source_vars, suggestions, uuids >>
    ELSE
    /\ analysis_jobs' = got.jobs
    /\ analysis_results' = got.results
    /\ IF given /\ track_id \notin DOMAIN got.snapshot.track_features
       THEN /\ ret' = [Fail("suggest", "KeyError") EXCEPT
                         !.at_call = << AtSuggest(track_id, profile, analysis_id) >>]
            /\ UNCHANGED << source_vars, suggestions, uuids >>
       ELSE
       LET target_mode == normalize_suggestion_engine(
                            IF engine_mode \in {None, ""} THEN suggestion_mode
                            ELSE engine_mode)
       IN
       IF IsError(target_mode)
       THEN /\ ret' = Fail("suggest", target_mode.error)
            /\ UNCHANGED << source_vars, suggestions, uuids >>
       ELSE
       LET gen == _generate_suggestions(target_mode.mode, track_id, profile,
                                        got.snapshot.track_features[track_id], result)
           list == Numbered(gen.suggestions)
       IN
       /\ Room(track_id, Len(list))
       /\ last_suggestion_source' = gen.source
       /\ last_suggestion_fallback_reason' =
            IF gen.fallback_reason = << >> THEN None ELSE gen.fallback_reason[1].text
       /\ uuids' = [uuids EXCEPT !.suggestion = @ + Len(list)]
       /\ IF gen.error # None
          THEN /\ ret' = [Fail("suggest", gen.error)
                            EXCEPT !.trace = gen.trace,
                                   !.transport_calls = gen.transport_calls,
                                   !.at_call = << AtSuggest(track_id, profile, analysis_id) >>]
               /\ suggestions' = suggestions
          ELSE /\ ret' = [Return("suggest", Len(list))
                            EXCEPT !.returned = list, !.trace = gen.trace,
                                   !.transport_calls = gen.transport_calls,
                                   !.at_call = << AtSuggest(track_id, profile, analysis_id) >>]
               /\ suggestions' = Stored(list)

EngineInputs == {None, "rule-based", " LLM ", "bogus"}

\* suggest(track_id, profile, analysis_id=...): returns once the snapshot of
\* analysis_id is available
Suggest(track_id, profile, analysis_id, engine_mode, result) ==
    /\ waiting = << >>
    /\ IF profile \notin Profiles
       THEN /\ ret' = Fail("suggest", "ValueError")
            /\ UNCHANGED << tracks, analysis_vars, source_vars, suggestions, uuids >>
       ELSE /\ CanReturn(analysis_id)
            /\ tracks' = ensure_track(tracks, track_id)
            /\ SuggestRest(track_id, profile, analysis_id, TRUE, engine_mode, result)
    /\ UNCHANGED << config, command_vars, preview_cache, waiting, pv >>

\* suggest(track_id, profile, mode=...) on an idle pool: the job it submits
\* is the only one, a worker runs it and the call returns.
SuggestFresh(track_id, profile, mode, engine_mode, result) ==
    /\ waiting = << >>
    /\ profile \in Profiles
    /\ mode \in AnalysisModes
    /\ Queued = {} /\ Running = {}
    /\ uuids.analysis < MaxAnalyses
    /\ Room(track_id, 1)
    /\ tracks' = ensure_track(tracks, track_id)
    /\ LET analysis_id == uuids.analysis + 1
           completed == [run_analysis(mode, SignalsOf({track_id}))
                           EXCEPT !.analysis_id = analysis_id]
           target_mode == normalize_suggestion_engine(
                            IF engine_mode \in {None, ""} THEN suggestion_mode
                            ELSE engine_mode)
       IN
       /\ analysis_results' = Put(analysis_results, analysis_id, completed)
       /\ IF IsError(target_mode)
          THEN /\ ret' = Fail("suggest", target_mode.error)
               /\ uuids' = [uuids EXCEPT !.analysis = analysis_id]
               /\ UNCHANGED << source_vars, suggestions >>
          ELSE
          LET gen == _generate_suggestions(target_mode.mode, track_id, profile,
                                           completed.track_features[track_id], result)
              list == Numbered(gen.suggestions)
          IN
          /\ Room(track_id, Len(list))
          /\ last_suggestion_source' = gen.source
          /\ last_suggestion_fallback_reason' =
               IF gen.fallback_reason = << >> THEN None ELSE gen.fallback_reason[1].text
          /\ uuids' = [uuids EXCEPT !.analysis = analysis_id,
                                    !.suggestion = @ + Len(list)]
          /\ IF gen.error # None
             THEN /\ ret' = [Fail("suggest", gen.error)
                               EXCEPT !.trace = gen.trace,
                                   !.transport_calls = gen.transport_calls,
                                      !.at_call = << AtSuggest(track_id, profile, analysis_id) >>]
                  /\ suggestions' = suggestions
             ELSE /\ ret' = [Return("suggest", Len(list))
                               EXCEPT !.returned = list, !.trace = gen.trace,
                                   !.transport_calls = gen.transport_calls,
                                      !.at_call = << AtSuggest(track_id, profile, analysis_id) >>]
                  /\ suggestions' = Stored(list)
    /\ UNCHANGED << config, analysis_jobs, command_vars, preview_cache, waiting, pv >>

set_suggestion_mode(mode) ==
    /\ waiting = << >>
    /\ LET normalized == normalize_suggestion_engine(mode) IN
       IF IsError(normalized)
       THEN /\ ret' = Fail("set_suggestion_mode", normalized.error)
            /\ UNCHANGED suggestion_mode
       ELSE /\ ret' = Return("set_suggestion_mode", 0)
            /\ suggestion_mode' = normalized.mode
    /\ UNCHANGED << tracks, fallback_to_rule_on_llm_error, llm_suggester, source_vars,
                    analysis_vars, suggestions, command_vars, preview_cache, uuids,
                    waiting, pv >>

(***************************************************************************)
(* What the remote endpoint may do in one call.                            *)
(***************************************************************************)
NoPayload == [candidates_is_list |-> FALSE, candidates |-> << >>]
Raises(kind, msg) == [raises |-> kind, message |-> msg, payload |-> NoPayload]
Responds(candidates) ==
    [raises |-> None, message |-> Msg("", 0),
     payload |-> [candidates_is_list |-> TRUE, candidates |-> candidates]]

Candidate(variant, score, param_updates) ==
    [is_dict |-> TRUE, variant |-> variant, score |-> score,
     reason |-> "generated-by-llm", param_updates |-> param_updates]
NotACandidate ==
    [is_dict |-> FALSE, variant |-> "", score |-> NotNum, reason |-> "",
     param_updates |-> NotDict]

LlmTight ==
    Candidate("llm-tight", Num(9100),
              Dict(<< <<"compressor", Dict(<< <<"ratio", Num(5100)>>,
                                             <<"threshold_db", Num(-24000)>> >>)>>,
                      <<"saturator", Dict(<< <<"mix", Num(440)>> >>)>> >>))
\* targets outside the parameter ranges, an effect kind that is not built
\* in, a value that is not a number, a score that is not a number
LlmHot ==
    Candidate("llm-hot", NotNum,
              Dict(<< <<"reverb", Dict(<< <<"size", Num(500)>> >>)>>,
                      <<" EQ ", Dict(<< <<"high_gain_db", Num(25000)>>,
                                       <<"low_gain_db", NotNum>> >>)>>,
                      <<"gate", Dict(<< <<"threshold_db", Num(-90000)>> >>)>> >>))
\* a parameter id that the effect does not have
LlmStray ==
    Candidate("llm-stray", Num(5000),
              Dict(<< <<"saturator", Dict(<< <<"mix", Num(300)>>,
                                            <<"gain", Num(100)>> >>)>> >>))
LlmNothing ==
    Candidate("llm-nothing", Num(9900),
              Dict(<< <<"reverb", Dict(<< <<"size", Num(500)>> >>)>>,
                      <<"eq", NotDict>> >>))

IssuedOr0(n) == 0..n

\* the pairs of a track and a stored suggestion of that track
OwnSuggestions ==
    {a \in TrackIds \X DOMAIN suggestions : suggestions[a[2]].track_id = a[1]}
\* the pairs for which the lookup fails: an unknown id, another track's id
OtherSuggestions ==
    (TrackIds \X IssuedOr0(uuids.suggestion)) \ OwnSuggestions

(***************************************************************************)
(* Spec: a service constructed in remote mode and driven by one caller,    *)
(* one call at a time.  "kick" is the track the caller auditions: every    *)
(* preview of its suggestions at every setting; both tracks are applied    *)
(* to and reverted.                                                        *)
(***************************************************************************)
InitRemote ==
    /\ Init
    /\ suggestion_mode = "llm-based"
    /\ fallback_to_rule_on_llm_error
    /\ llm_suggester.endpoint # ""

\* what the endpoint answers for each track
KickResponse == Responds(<< LlmStray, NotACandidate, LlmHot, LlmTight >>)

Next ==
    \/ SuggestFresh("kick", "punch", "quick", None, KickResponse)
    \/ SuggestFresh("snare", "punch", "quick", None, Responds(<< LlmNothing, LlmTight >>))
    \/ \E x \in SuggestionsOf("kick"), d \in DryWets : Preview("kick", x, d)
    \/ \E t \in TrackIds : CancelPreview(t)
    \/ \E a \in OwnSuggestions : Apply(a[1], a[2])
    \/ \E c \in DOMAIN commands : Revert(c)

Spec == InitRemote /\ [][Next]_vars

(***************************************************************************)
(* Short runs: the two specifications below take one analysis, of "kick"   *)
(* only, through the worker pool, and create one command.                  *)
(***************************************************************************)
MaxAnalysesShort == 1   \* analysis jobs submitted
MaxCommandsShort == 1   \* commands created by apply

(***************************************************************************)
(* SpecSuggest: any construction of the service.  suggest is called for    *)
(* "kick" under either engine, with the endpoint failing or responding;    *)
(* what it stored is previewed and applied.                                *)
(***************************************************************************)
EngineOverrides == {None, " LLM "}

EndpointResults ==
    { Raises("TimeoutError", Msg("llm timeout", 11)),
      Raises("OSError", Msg("connection reset ...", 200)),
      Raises("RuntimeError", Msg("", 0)),
      Responds(<< LlmTight >>) }

NextSuggest ==
    \/ uuids.analysis < MaxAnalysesShort /\ Analyze({"kick"}, "quick")
    \/ \E a \in IssuedOr0(uuids.analysis) : WorkerStart(a)
    \/ \E a \in IssuedOr0(uuids.analysis) : WorkerFinish(a)
    \/ \E a \in 1..uuids.analysis, e \in EngineOverrides, r \in EndpointResults :
          Suggest("kick", "punch", a, e, r)
    \/ \E a \in OwnSuggestions : Preview(a[1], a[2], 2)
    \/ CancelPreview("kick")
    \/ \E a \in OwnSuggestions :
          uuids.command < MaxCommandsShort /\ Apply(a[1], a[2])

SpecSuggest == Init /\ [][NextSuggest]_vars

(***************************************************************************)
(* SpecErr: a rule-based service and a caller that also passes ids the     *)
(* service never issued, ids of another kind, and suggestions and          *)
(* analyses of another track.                                              *)
(***************************************************************************)
InitErr ==
    /\ Init
    /\ suggestion_mode = "rule-based"
    /\ fallback_to_rule_on_llm_error
    /\ llm_suggester.endpoint = ""

\* the endpoint is not asked
Unasked == Responds(<< >>)

\* ids get_snapshot may be asked for: issued, never issued, and the uuid a
\* snapshot drew for itself
SnapshotIds == IssuedOr0(uuids.analysis) \cup {OwnSnapshotId(1)}

NextErr ==
    \/ uuids.analysis < MaxAnalysesShort /\ Analyze({"kick"}, "quick")
    \/ \E a \in IssuedOr0(uuids.analysis) : WorkerStart(a)
    \/ \E a \in IssuedOr0(uuids.analysis) : WorkerFinish(a)
    \/ \E a \in SnapshotIds : GetSnapshot(a)
    \/ \E t \in TrackIds, a \in IssuedOr0(uuids.analysis) :
          Suggest(t, "punch", a, None, Unasked)
    \/ \E a \in OwnSuggestions \cup OtherSuggestions : Preview(a[1], a[2], 2)
    \/ \E t \in TrackIds : CancelPreview(t)
    \/ \E a \in OwnSuggestions \cup OtherSuggestions :
          /\ a \in OwnSuggestions => uuids.command < MaxCommandsShort
          /\ Apply(a[1], a[2])
    \/ \E c \in IssuedOr0(uuids.command) : Revert(c)

SpecErr == InitErr /\ [][NextErr]_vars


(***************************************************************************)
(* Transaction laws: preview / cancel_preview / apply / revert.            *)
(***************************************************************************)
LiveChain(track_id) == tracks[track_id].fx_chain

AppliedThenReverted ==
    /\ ret.op = "revert" /\ ret.error = None /\ ret.at_call # << >>

\* C1 (as stated): apply followed by revert of the returned command leaves
\* the live chain equal to the chain the track had immediately before the
\* apply, whether or not a preview was pending when apply was called.
C1_Original ==
    AppliedThenReverted =>
        LiveChain(ret.at_call[1].track_id) = ret.at_call[1].live

\* C1 (amended): apply followed by revert of the returned command leaves the
\* live chain equal to the chain the track had before the apply when no
\* preview was pending, and to the chain it had before the first pending
\* preview when one was: apply cancels the preview before it records
\* before_chain.
C1_RevertRestoresCommitted ==
    AppliedThenReverted =>
        /\ LiveChain(ret.at_call[1].track_id) = ret.at_call[1].committed
        /\ ret.at_call[1].previewed = UnknownId =>
               LiveChain(ret.at_call[1].track_id) = ret.at_call[1].live

C1_Witness ==
    /\ AppliedThenReverted
    /\ ret.at_call[1].previewed # UnknownId
    /\ ret.at_call[1].live # ret.at_call[1].committed
    /\ commands[ret.value].after_chain # commands[ret.value].before_chain

\* C2: after one or more previews of a track followed by cancel_preview, the
\* live chain equals the chain the track had before the first of them.
C2_CancelRestoresFirst ==
    (ret.op = "cancel_preview" /\ ret.at_call # << >>) =>
        /\ LiveChain(ret.at_call[1].track_id) = ret.at_call[1].first
        /\ ret.at_call[1].track_id \notin DOMAIN preview_cache

C2_Witness ==
    /\ ret.op = "cancel_preview" /\ ret.at_call # << >>
    /\ ret.at_call[1].repeated
    /\ ret.at_call[1].live # ret.at_call[1].first

\* The blend of one parameter as the law states it, from the registry's
\* range and the suggestion's target.  dry_wet is a fraction of MixDen; the
\* law is stated for dry_wet in [0, 1], outside of which the program takes
\* the nearer end of the range (line 246).
HasTarget(updates, e, p) ==
    \E i \in 1..Len(updates) :
        /\ updates[i][1] = e
        /\ \E j \in 1..Len(updates[i][2]) : updates[i][2][j][1] = p
TargetOf(updates, e, p) ==
    LET i == CHOOSE i \in 1..Len(updates) : updates[i][1] = e
        j == CHOOSE j \in 1..Len(updates[i][2]) : updates[i][2][j][1] = p
    IN  updates[i][2][j][2]
RangeOf(e, p) ==
    LET i == CHOOSE i \in 1..Len(EFFECT_SPECS[e]) : EFFECT_SPECS[e][i].param_id = p
    IN  EFFECT_SPECS[e][i]
Blended(base, updates, dry_wet, e, p) ==
    LET b == base.effects[e].parameters[p] IN
    IF ~HasTarget(updates, e, p) THEN b
    ELSE LET v == b + ((TargetOf(updates, e, p) - b) * dry_wet) \div MixDen IN
         IF v < RangeOf(e, p).minimum THEN RangeOf(e, p).minimum
         ELSE IF v > RangeOf(e, p).maximum THEN RangeOf(e, p).maximum
         ELSE v

AppliedThePreviewed ==
    /\ ret.op = "apply" /\ ret.error = None
    /\ ret.at_call[1].previewed = commands[ret.value].suggestion_id

\* C4: preview(track, s, d) followed by apply(track, s) records a command
\* whose before_chain is the chain before the preview and whose after_chain,
\* which is also the live chain, is the after_chain of apply(track, s) called
\* on that chain with no preview.
C4_ApplyAfterPreview ==
    AppliedThePreviewed =>
        LET command == commands[ret.value]
            start == ret.at_call[1].committed
        IN  /\ command.before_chain = start
            /\ command.after_chain =
                   _apply_param_updates(start,
                                        suggestions[command.suggestion_id].param_updates,
                                        MixDen)
            /\ LiveChain(command.track_id) = command.after_chain

C4_Witness ==
    /\ AppliedThePreviewed
    /\ ret.at_call[1].live # ret.at_call[1].committed
    /\ ret.at_call[1].live # commands[ret.value].after_chain

\* the ids of a history, and the entries of a history that are of a track
RECURSIVE OfTrack(_, _)
OfTrack(history, track_id) ==
    IF history = << >> THEN << >>
    ELSE IF Head(history).track_id = track_id
         THEN << Head(history) >> \o OfTrack(Tail(history), track_id)
         ELSE OfTrack(Tail(history), track_id)

HistoryIsEveryCommandNewestFirst ==
    LET history == get_command_history(None) IN
    /\ Len(history) = Cardinality(DOMAIN commands)
    /\ {history[i].command_id : i \in 1..Len(history)} = DOMAIN commands
    /\ \A i \in 1..Len(history) : history[i] = commands[history[i].command_id]
    /\ \A i, j \in 1..Len(history) :
           i < j => history[i].created_at > history[j].created_at
    /\ \A t \in TrackIds : get_command_history(t) = OfTrack(history, t)

HistoryOnlyGrowsByApply ==
    /\ \/ command_order' = command_order
       \/ /\ ret'.op = "apply" /\ ret'.error = None
          /\ ret'.value \notin DOMAIN commands
          /\ command_order' = Append(command_order, ret'.value)
    /\ \A t \in TrackIds, x \in DOMAIN suggestions :
           (Apply(t, x) /\ ret'.error = None) =>
               Len(command_order') = Len(command_order) + 1

\* C5: the command history is append-only.  Each successful apply adds
\* exactly one entry and no other step adds, removes or reorders entries;
\* get_command_history() returns every entry, newest first, and
\* get_command_history(track_id) the entries of the track in that order.
C5_HistoryAppendOnly ==
    []HistoryIsEveryCommandNewestFirst /\ [][HistoryOnlyGrowsByApply]_vars

C5_Witness ==
    /\ Len(command_order) = 2
    /\ commands[command_order[1]].track_id # commands[command_order[2]].track_id
    /\ ret.op = "revert" /\ ret.error = None

FlagsOnlyFall ==
    /\ DOMAIN commands \subseteq DOMAIN commands'
    /\ \A c \in DOMAIN commands' \ DOMAIN commands :
           /\ commands'[c].applied
           /\ ret'.op = "apply" /\ ret'.value = c
    /\ \A c \in DOMAIN commands :
           /\ commands'[c].applied => commands[c].applied
           /\ commands'[c].applied # commands[c].applied =>
                  ret'.op = "revert" /\ ret'.error = None /\ ret'.value = c
           /\ Revert(c) => ~commands'[c].applied

\* C6: a command's lifecycle is one-way.  It is stored with applied = true by
\* the apply that creates it, revert(command_id) sets applied = false on that
\* command only, and no step sets a flag back to true or changes the flag of
\* another command.
C6_AppliedFlagOneWay == [][FlagsOnlyFall]_vars

C6_Witness ==
    /\ ret.op = "revert" /\ ret.error = None
    /\ ~commands[ret.value].applied
    /\ \E c \in DOMAIN commands : c # ret.value /\ commands[c].applied


(***************************************************************************)
(* Identifiers the service does not know.                                  *)
(***************************************************************************)
NotTheTracks(track_id, suggestion_id) ==
    \/ suggestion_id \notin DOMAIN suggestions
    \/ suggestions[suggestion_id].track_id # track_id

NothingCommittedChanges ==
    UNCHANGED << tracks, preview_cache, commands, command_order >>

FailedLookupChangesNothing ==
    ret'.op \in {"preview", "apply"} =>
    \A t \in TrackIds, x \in IssuedOr0(uuids.suggestion) :
        NotTheTracks(t, x) =>
            /\ Preview(t, x, 2) =>
                   /\ ret'.op = "preview"
                   /\ ret'.error \in {"KeyError", "ValueError"}
                   /\ NothingCommittedChanges
            /\ Apply(t, x) =>
                   /\ ret'.op = "apply"
                   /\ ret'.error \in {"KeyError", "ValueError"}
                   /\ NothingCommittedChanges

\* C7: preview and apply fail when the suggestion id is unknown or the stored
\* suggestion belongs to another track, and then nothing changes: no track
\* is created, no live chain changes, no preview baseline is captured or
\* dropped, no command is appended.
C7_FailedLookupNoEffect == [][FailedLookupChangesNothing]_vars

C7_Witness ==
    /\ ret.op = "apply" /\ ret.error = "ValueError"
    /\ "snare" \notin DOMAIN tracks
    /\ "kick" \in DOMAIN preview_cache
    /\ LiveChain("kick") # preview_cache["kick"]

\* the tracks of an analysis the service issued
TracksAnalysed(analysis_id) ==
    IF analysis_id \in DOMAIN analysis_results
    THEN DOMAIN analysis_results[analysis_id].track_features
    ELSE DOMAIN analysis_jobs[analysis_id].track_signals

\* every track keeps its chain.  suggest calls ensure_track before it looks
\* at the snapshot (line 101), so the track asked for may be new after the
\* failed call; it then has the default chain.
EveryChainStays ==
    \A t \in DOMAIN tracks :
        t \in DOMAIN tracks' /\ tracks'[t].fx_chain = tracks[t].fx_chain

UnknownIdsChangeNothing ==
    /\ ret'.op = "revert" =>
        \A c \in IssuedOr0(uuids.command) :
           (c \notin DOMAIN commands /\ Revert(c)) =>
               /\ ret'.error = "KeyError"
               /\ NothingCommittedChanges
    /\ ret'.op = "get_snapshot" =>
        \A a \in SnapshotIds :
           (a \notin 1..uuids.analysis /\ GetSnapshot(a)) =>
               /\ ret'.error = "KeyError"
               /\ UNCHANGED << analysis_vars, tracks, suggestions >>
    /\ ret'.op = "suggest" =>
        \A t \in TrackIds, a \in 1..uuids.analysis :
           (t \notin TracksAnalysed(a) /\ Suggest(t, "punch", a, None, Unasked)) =>
               /\ ret'.error = "KeyError"
               /\ suggestions' = suggestions
               /\ EveryChainStays
               /\ UNCHANGED << preview_cache, commands, command_order >>

\* C8: unknown identifiers are surfaced as not-found errors and change no
\* committed state.  revert of an unknown command id fails and leaves every
\* chain, preview baseline and command as it was; get_snapshot of an id that
\* analyze never returned fails; suggest with an analysis whose snapshot
\* lacks the track fails, stores no suggestion and changes no chain.
C8_UnknownIdsNoEffect == [][UnknownIdsChangeNothing]_vars

C8_Witness ==
    /\ ret.op = "suggest" /\ ret.error = "KeyError"
    /\ ret.at_call[1].analysis_id \in DOMAIN analysis_results
    /\ ret.at_call[1].track_id \notin
           DOMAIN analysis_results[ret.at_call[1].analysis_id].track_features
    /\ "kick" \in DOMAIN preview_cache
    /\ LiveChain("kick") # preview_cache["kick"]
    /\ commands # EmptyDict

(***************************************************************************)
(* The remote engine fails.                                                *)
(***************************************************************************)
RemoteFailed ==
    /\ ret.op = "suggest" /\ ret.trace # << >>
    /\ ret.trace[1].engine = "llm-based"
    /\ ret.trace[1].raised # None

HasToken(reason, token) == \E i \in 1..Len(reason) : reason[i] = token

\* the reason up to the fallback note
RECURSIVE BeforeFallback(_)
BeforeFallback(reason) ==
    IF reason = << >> \/ Head(reason) = " | fallback=" THEN << >>
    ELSE << Head(reason) >> \o BeforeFallback(Tail(reason))

SameAdvice(suggestion, rule) ==
    /\ suggestion.track_id = rule.track_id
    /\ suggestion.profile = rule.profile
    /\ suggestion.variant = rule.variant
    /\ suggestion.score = rule.score
    /\ suggestion.param_updates = rule.param_updates
    /\ BeforeFallback(suggestion.reason) = rule.reason

\* C9: when the engine of the call is the remote one, it fails, and fallback
\* is enabled, suggest does not fail.  It returns the suggestions of the
\* rule-based strategy (at least 3) for the same track, profile and
\* features, each reason containing "fallback="; the source reads
\* rule-based-fallback, the fallback reason is not null, and the returned
\* suggestions are stored.
C9_FallbackOnRemoteFailure ==
    (RemoteFailed /\ fallback_to_rule_on_llm_error) =>
        LET call == ret.at_call[1]
            rules == suggest_from_features(
                       call.track_id, call.profile,
                       analysis_results[call.analysis_id].track_features[call.track_id])
        IN  /\ ret.error = None
            /\ Len(ret.returned) >= 3
            /\ Len(ret.returned) = Len(rules)
            /\ \A i \in 1..Len(ret.returned) :
                   /\ SameAdvice(ret.returned[i], rules[i])
                   /\ HasToken(ret.returned[i].reason, " | fallback=")
                   /\ ret.returned[i].suggestion_id \in DOMAIN suggestions
                   /\ suggestions[ret.returned[i].suggestion_id] = ret.returned[i]
                   /\ ~IsError(_get_suggestion(ret.returned[i].suggestion_id,
                                               call.track_id))
            /\ last_suggestion_source = "rule-based-fallback"
            /\ last_suggestion_fallback_reason # None

C9_Witness ==
    /\ RemoteFailed /\ fallback_to_rule_on_llm_error
    /\ ret.trace[1].raised = "RuntimeError"
    /\ last_suggestion_fallback_reason = "llm_error"
    /\ llm_suggester.endpoint # ""

\* what the remote strategy raises for what the endpoint did
RemoteError(result) ==
    IF llm_suggester.endpoint = "" THEN "SuggestionEngineError"
    ELSE IF result.raises \in {"TimeoutError", "OSError"}
      THEN "SuggestionEngineError"
    ELSE result.raises

RemoteFailurePropagates ==
    ( /\ ~fallback_to_rule_on_llm_error
      /\ ret'.op = "suggest" /\ ret'.trace # << >>
      /\ ret'.trace[1].engine = "llm-based"
      /\ ret'.trace[1].raised # None ) =>
    \A a \in 1..uuids.analysis, e \in EngineOverrides, r \in EndpointResults :
        Suggest("kick", "punch", a, e, r) =>
            /\ ret'.error = RemoteError(r)
            /\ ret'.trace = << Ran("llm-based", RemoteError(r)) >>
            /\ ret'.returned = << >>
            /\ suggestions' = suggestions
            /\ uuids' = uuids
            /\ last_suggestion_source' = last_suggestion_source

NeverFallbackSource ==
    ~fallback_to_rule_on_llm_error =>
        /\ last_suggestion_source # "rule-based-fallback"
        /\ RemoteFailed => ret.error # None /\ Len(ret.trace) = 1

\* C10: when the engine of the call is the remote one, it fails, and
\* fallback is disabled, suggest raises the error of the remote strategy,
\* the rule-based strategy is not run, no suggestion is stored, and the
\* source never reads rule-based-fallback.
C10_NoFallbackPropagates ==
    []NeverFallbackSource /\ [][RemoteFailurePropagates]_vars

C10_Witness ==
    /\ RemoteFailed /\ ~fallback_to_rule_on_llm_error
    /\ ret.error = "RuntimeError"
    /\ suggestions # EmptyDict
    /\ last_suggestion_source = "llm-based"


(***************************************************************************)
(* The engines of one suggest call.                                        *)
(***************************************************************************)
\* the engine a call asks for: the override when there is one, else the
\* mode the service is in
AskedRemote(engine_mode) ==
    \/ engine_mode = " LLM "
    \/ engine_mode = None /\ suggestion_mode = "llm-based"

OneRemoteCallAtMost ==
    ret'.op = "suggest" =>
    \A a \in 1..uuids.analysis, e \in EngineOverrides, r \in EndpointResults :
        (Suggest("kick", "punch", a, e, r) /\ ret'.trace # << >>) =>
            /\ ret'.transport_calls =
                   IF AskedRemote(e) /\ llm_suggester.endpoint # "" THEN 1 ELSE 0
            /\ ~AskedRemote(e) => ret'.trace = << Ran("rule-based", None) >>
            /\ AskedRemote(e) =>
                   /\ ret'.trace[1].engine = "llm-based"
                   /\ Len(ret'.trace) <= 2
                   /\ Len(ret'.trace) = 2 =>
                          /\ ret'.trace[1].raised # None
                          /\ ret'.trace[2] = Ran("rule-based", None)

\* C11: within one suggest call the transport is invoked at most once: not
\* at all when the engine of the call is rule-based or no endpoint is
\* configured, once otherwise.  After a remote failure the only further
\* generation step is one run of the rule-based strategy.
C11_TransportOnce == [][OneRemoteCallAtMost]_vars

C11_Witness ==
    /\ ret.op = "suggest" /\ Len(ret.trace) = 2
    /\ ret.trace[1].raised = "SuggestionEngineError"
    /\ llm_suggester.endpoint # ""
    /\ ret.transport_calls = 1


(***************************************************************************)
(* SpecSource: any construction of the service; one analysis of both       *)
(* tracks; suggest is called for either track, one call at a time, under   *)
(* either engine and with the endpoint failing or responding, and the      *)
(* mode of the service is switched in between.                             *)
(***************************************************************************)
NextSource ==
    \/ uuids.analysis < MaxAnalysesShort /\ Analyze(TrackIds, "quick")
    \/ \E a \in IssuedOr0(uuids.analysis) : WorkerStart(a)
    \/ \E a \in IssuedOr0(uuids.analysis) : WorkerFinish(a)
    \/ \E t \in TrackIds, a \in 1..uuids.analysis,
          e \in EngineOverrides, r \in EndpointResults : Suggest(t, "punch", a, e, r)
    \/ \E m \in EngineInputs : set_suggestion_mode(m)

SpecSource == Init /\ [][NextSource]_vars

ServedBy(engine) ==
    /\ ret.op = "suggest" /\ ret.error = None
    /\ ret.trace = << Ran(engine, None) >>

\* C12: after any sequence of suggest calls made one at a time, the fallback
\* reason is non-null exactly when the source reads rule-based-fallback; a
\* suggest served by the remote strategy leaves source llm-based and a null
\* reason, one served in rule-based mode leaves source rule-based and a null
\* reason.
C12_FallbackReasonIffSource ==
    /\ last_suggestion_fallback_reason # None <=>
           last_suggestion_source = "rule-based-fallback"
    /\ ServedBy("llm-based") =>
           /\ last_suggestion_source = "llm-based"
           /\ last_suggestion_fallback_reason = None
    /\ ServedBy("rule-based") =>
           /\ last_suggestion_source = "rule-based"
           /\ last_suggestion_fallback_reason = None

\* a call served by the remote strategy after a call that fell back
C12_Witness ==
    /\ ServedBy("llm-based")
    /\ \E x \in DOMAIN suggestions :
           HasToken(suggestions[x].reason, " | fallback=")


(***************************************************************************)
(* SpecLists: any construction of the service; one analysis of both        *)
(* tracks; suggest is called for either track under either engine, the     *)
(* endpoint failing or answering with candidates in any order of score.    *)
(***************************************************************************)
ListResults ==
    { Raises("TimeoutError", Msg("llm timeout", 11)),
      \* resp.read().decode("utf-8") on a body that is not UTF-8
      Raises("UnicodeDecodeError", Msg("'utf-8' codec can't decode byte 0xff", 36)),
      \* the second score is what json.loads reads from the literal NaN
      Responds(<< LlmTight,
                  Candidate("llm-unscored", Num(NaN),
                            Dict(<< <<"saturator", Dict(<< <<"mix", Num(300)>> >>)>> >>)),
                  Candidate("llm-warm", Num(9500),
                            Dict(<< <<"eq", Dict(<< <<"low_gain_db", Num(2000)>> >>)>> >>)) >>),
      Responds(<< LlmStray, NotACandidate, LlmTight, LlmHot,
                  Candidate("llm-warm", Num(9500),
                            Dict(<< <<"eq", Dict(<< <<"low_gain_db", Num(2000)>> >>)>> >>)) >>) }

NextLists ==
    \/ uuids.analysis < MaxAnalysesShort /\ Analyze(TrackIds, "quick")
    \/ \E a \in IssuedOr0(uuids.analysis) : WorkerStart(a)
    \/ \E a \in IssuedOr0(uuids.analysis) : WorkerFinish(a)
    \/ \E t \in TrackIds, a \in 1..uuids.analysis,
          e \in EngineOverrides, r \in ListResults : Suggest(t, "punch", a, e, r)

SpecLists == Init /\ [][NextLists]_vars

\* a >= b on floats
NotBelow(a, b) == a # NaN /\ b # NaN /\ a >= b

\* C13: every list returned by suggest holds at most three suggestions, in
\* order of score non-increasing, each carrying the requested track id and
\* stored under its id.
C13_ListsOrderedAndStored ==
    (ret.op = "suggest" /\ ret.error = None) =>
        LET list == ret.returned IN
        /\ Len(list) <= 3
        /\ \A i \in 1..Len(list) - 1 : NotBelow(list[i].score, list[i + 1].score)
        /\ \A i \in 1..Len(list) :
               /\ list[i].track_id = ret.at_call[1].track_id
               /\ list[i].suggestion_id \in DOMAIN suggestions
               /\ suggestions[list[i].suggestion_id] = list[i]


\* a raw candidate that is an object with a parameter update the parser
\* keeps: an effect of the four built-in kinds with a numeric value
Usable(raw) ==
    /\ raw.is_dict /\ raw.param_updates.is_dict
    /\ \E i \in 1..Len(raw.param_updates.items) :
         LET item == raw.param_updates.items[i] IN
         /\ StripLower(item[1]) \in BuiltinEffectType
         /\ item[2].is_dict
         /\ \E j \in 1..Len(item[2].items) : item[2].items[j][2].is_number

RemoteFailsAsListed ==
    (ret'.op = "suggest" /\ ret'.trace # << >> /\ ret'.trace[1].engine = "llm-based") =>
    \A t \in TrackIds, a \in 1..uuids.analysis, e \in EngineOverrides, r \in ListResults :
        Suggest(t, "punch", a, e, r) =>
            /\ ret'.trace[1].raised \in {None, "SuggestionEngineError"}
            /\ ret'.trace[1].raised = None <=>
                 /\ llm_suggester.endpoint # ""
                 /\ r.raises = None
                 /\ r.payload.candidates_is_list
                 /\ \E i \in 1..Len(r.payload.candidates) : Usable(r.payload.candidates[i])

\* C24: the remote strategy fails exactly when the endpoint is not
\* configured, the transport raises, the response is not a JSON object
\* with a list of candidates, or no candidate keeps a usable parameter
\* update, and then with an engine error; candidates that are not objects,
\* effect kinds outside the four built-in ones and values that are not
\* numbers are dropped without failing the call.
C24_RemoteFailsOnlyAsListed == [][RemoteFailsAsListed]_vars

(***************************************************************************)
(* SpecRange: a service in remote mode whose endpoint answers with targets *)
(* of any size; the suggestions are previewed at every setting, cancelled, *)
(* applied and reverted.                                                   *)
(***************************************************************************)
WildResponse ==
    Responds(<< LlmHot,
                Candidate("llm-wild", Num(8000),
                          Dict(<< <<"eq", Dict(<< <<"high_gain_db", Num(PosInf)>>,
                                                 <<"low_gain_db", Num(NaN)>> >>)>>,
                                  <<"gate", Dict(<< <<"threshold_db", Num(-PosInf)>> >>)>> >>)) >>)

NextRange ==
    \/ SuggestFresh("kick", "punch", "quick", None, WildResponse)
    \/ \E x \in SuggestionsOf("kick"), d \in DryWets : Preview("kick", x, d)
    \/ CancelPreview("kick")
    \/ \E x \in SuggestionsOf("kick") : Apply("kick", x)
    \/ \E c \in DOMAIN commands : Revert(c)

SpecRange == InitRemote /\ [][NextRange]_vars

\* the four built-in effects, each with the parameter ids of its spec and
\* every value within [minimum, maximum]
WellFormed(chain) ==
    /\ DOMAIN chain.effects = BuiltinEffectType
    /\ \A e \in BuiltinEffectType :
           /\ DOMAIN chain.effects[e].parameters = ParamIds(e)
           /\ \A p \in ParamIds(e) :
                  LET v == chain.effects[e].parameters[p] IN
                  /\ v # NaN
                  /\ RangeOf(e, p).minimum <= v
                  /\ v <= RangeOf(e, p).maximum

\* C14: after any sequence of operations every live chain, every pending
\* preview baseline and every command's before_chain and after_chain holds
\* exactly the four built-in effects with the parameter ids of their specs
\* and every value within [min, max].
C14_ChainsStayInRange ==
    /\ \A t \in DOMAIN tracks : WellFormed(tracks[t].fx_chain)
    /\ \A t \in DOMAIN preview_cache : WellFormed(preview_cache[t])
    /\ \A c \in DOMAIN commands :
           /\ WellFormed(commands[c].before_chain)
           /\ WellFormed(commands[c].after_chain)


(***************************************************************************)
(* Objects handed out.  A chain is a BuiltinFXChainState holding a dict of *)
(* BuiltinFXState objects, each holding a parameters dict.  A copy is the  *)
(* value of the chain together with the effects whose parameters dict it   *)
(* shares with the original: a write through the copy to a shared dict is  *)
(* a write to the original.                                                *)
(***************************************************************************)
\* seeded fault: the effects dict is copied, the states in it are not
shallow_clone(chain) == [chain |-> chain, shared |-> DOMAIN chain.effects]

\* BuiltinFXChainState.clone: a new state and a new parameters dict per effect
clone(chain) == [chain |-> chain, shared |-> {}]

_clone_track_state(track) ==
    LET copy == clone(track.fx_chain) IN
    [state |-> [track_id |-> track.track_id,
                input_gain_db |-> track.input_gain_db,
                fx_chain |-> copy.chain,
                fader_db |-> track.fader_db,
                pan |-> track.pan,
                sends |-> [i \in 1..Len(track.sends) |-> track.sends[i]]],
     shared |-> copy.shared]

\* get_track_state(track_id): the caller holds the returned TrackState
GetTrackState(track_id) ==
    /\ waiting = << >>
    /\ tracks' = ensure_track(tracks, track_id)
    /\ ret' = [Return("get_track_state", 0) EXCEPT
                 !.returned = << _clone_track_state(tracks'[track_id]) >>]
    /\ UNCHANGED << config, source_vars, analysis_vars, suggestions, command_vars,
                    preview_cache, uuids, waiting, pv >>

\* the caller assigns snapshot.fx_chain.effects[effect_type].parameters[param_id]
MutateSnapshot(effect_type, param_id, value) ==
    /\ ret.op = "get_track_state"
    /\ LET snapshot == ret.returned[1]
           track_id == snapshot.state.track_id
       IN  /\ ret' = [ret EXCEPT
                        !.op = "mutate_snapshot",
                        !.returned =
                           << [snapshot EXCEPT
                                 !.state.fx_chain.effects[effect_type]
                                        .parameters[param_id] = value] >>]
           /\ tracks' =
                IF effect_type \in snapshot.shared
                THEN [tracks EXCEPT
                        ![track_id].fx_chain.effects[effect_type]
                                   .parameters[param_id] = value]
                ELSE tracks
    /\ UNCHANGED << config, source_vars, analysis_vars, suggestions, command_vars,
                    preview_cache, uuids, waiting, pv >>

(***************************************************************************)
(* SpecShare: a service in remote mode; the suggestions of "kick" are      *)
(* previewed, cancelled, applied and reverted, and between any two calls   *)
(* the caller takes the state of a track and writes into what it got.      *)
(***************************************************************************)
NextShare ==
    \/ SuggestFresh("kick", "punch", "quick", None, KickResponse)
    \/ \E x \in SuggestionsOf("kick") : Preview("kick", x, 2)
    \/ CancelPreview("kick")
    \/ \E x \in SuggestionsOf("kick") :
          uuids.command < MaxCommandsShort /\ Apply("kick", x)
    \/ \E c \in DOMAIN commands : Revert(c)
    \/ \E t \in TrackIds : GetTrackState(t)
    \/ MutateSnapshot("saturator", "mix", 800)

SpecShare == InitRemote /\ [][NextShare]_vars

StoredChainsStay ==
    \A c \in DOMAIN commands :
        /\ c \in DOMAIN commands'
        /\ commands'[c].before_chain = commands[c].before_chain
        /\ commands'[c].after_chain = commands[c].after_chain

PendingBaselineStays ==
    \A t \in DOMAIN preview_cache \cap DOMAIN preview_cache' :
        preview_cache'[t] = preview_cache[t]

SnapshotIsDetached ==
    ret'.op = "mutate_snapshot" =>
        /\ tracks' = tracks
        /\ preview_cache' = preview_cache
        /\ commands' = commands

MaxJobs == 3

NextPool ==
    \/ \E t \in {"kick", "t1"}, m \in AnalysisModes \cup {"deep"} :
          uuids.analysis < MaxJobs /\ Analyze({t}, m)
    \/ \E a \in IssuedOr0(uuids.analysis) : WorkerStart(a)
    \/ \E a \in IssuedOr0(uuids.analysis) : WorkerFinish(a)
    \/ \E a \in SnapshotIds : GetSnapshot(a)

SpecPool == InitErr /\ [][NextPool]_vars

Issued == 1..uuids.analysis

\* each issued id is pending or resolved, never both, and a stored snapshot
\* carries the id it is stored under
PendingOrResolved ==
    /\ DOMAIN analysis_jobs \cup DOMAIN analysis_results = Issued
    /\ DOMAIN analysis_jobs \cap DOMAIN analysis_results = {}
    /\ \A a \in DOMAIN analysis_results : analysis_results[a].analysis_id = a

ResolvesOnce ==
    ret'.op = "get_snapshot" =>
    \A a \in Issued :
        GetSnapshot(a) =>
            /\ ret'.error = None
            /\ ret'.value = a
            /\ ret'.returned = << analysis_results'[a] >>
            /\ a \notin DOMAIN analysis_jobs'
            /\ a \in DOMAIN analysis_jobs =>
                   analysis_results'[a] =
                       [run_analysis(analysis_jobs[a].mode, analysis_jobs[a].track_signals)
                          EXCEPT !.analysis_id = a]
            /\ a \in DOMAIN analysis_results =>
                   /\ analysis_results' = analysis_results
                   /\ analysis_jobs' = analysis_jobs

\* C16: the first get_snapshot of an id that analyze returned resolves the
\* job, stores the result and moves the id from pending to resolved; a later
\* get_snapshot returns the stored snapshot and resolves nothing; the
\* snapshot carries the id analyze returned; every issued id is pending or
\* resolved, never both.
C16_SnapshotResolvedOnce == []PendingOrResolved /\ [][ResolvesOnce]_vars

\* get_snapshot returned the snapshot of the first analysis, stored earlier,
\* while a later analysis is pending
C16_Witness ==
    /\ ret.op = "get_snapshot" /\ ret.error = None
    /\ ret.value \in DOMAIN analysis_results
    /\ ret.returned = << analysis_results[ret.value] >>
    /\ DOMAIN analysis_jobs # {}
    /\ ret.value < uuids.analysis


(***************************************************************************)
(* SpecPoolFair: the pool under its scheduling.  A get_snapshot call on a  *)
(* job that is not done waits in job.result(); the caller makes no other   *)
(* call until it returns.  An idle worker thread takes queued work, a      *)
(* running job returns (run_analysis loops over finite lists), and the     *)
(* waiting caller is woken when its future is set.                         *)
(***************************************************************************)
\* get_snapshot(analysis_id) enters job.result() on a job that is not done
GetSnapshotWait(analysis_id) ==
    /\ waiting = << >>
    /\ analysis_id \in DOMAIN analysis_jobs
    /\ analysis_jobs[analysis_id].state # "done"
    /\ waiting' = << [analysis_id |-> analysis_id] >>
    /\ UNCHANGED << tracks, config, source_vars, analysis_vars, suggestions,
                    command_vars, preview_cache, uuids, ret, pv >>

\* job.result() returns and get_snapshot runs to its end
GetSnapshotWake ==
    /\ waiting # << >>
    /\ analysis_jobs[waiting[1].analysis_id].state = "done"
    /\ LET got == get_snapshot(waiting[1].analysis_id) IN
       /\ analysis_jobs' = got.jobs
       /\ analysis_results' = got.results
       /\ ret' = [Return("get_snapshot", got.snapshot.analysis_id) EXCEPT
                    !.returned = << got.snapshot >>,
                    !.at_call = << waiting[1] >>]
    /\ waiting' = << >>
    /\ UNCHANGED << tracks, config, source_vars, suggestions, command_vars,
                    preview_cache, uuids, pv >>


NextPoolFair ==
    \/ \E m \in AnalysisModes : uuids.analysis < MaxJobs /\ Analyze({"kick"}, m)
    \/ \E a \in IssuedOr0(uuids.analysis) : WorkerStart(a)
    \/ \E a \in IssuedOr0(uuids.analysis) : WorkerFinish(a)
    \/ \E a \in 1..uuids.analysis : GetSnapshot(a)
    \/ \E a \in 1..uuids.analysis : GetSnapshotWait(a)
    \/ GetSnapshotWake

SpecPoolFair ==
    /\ InitErr /\ [][NextPoolFair]_vars
    /\ WF_vars(\E a \in IssuedOr0(uuids.analysis) : WorkerStart(a))
    /\ WF_vars(\E a \in IssuedOr0(uuids.analysis) : WorkerFinish(a))
    /\ WF_vars(GetSnapshotWake)

AtMostTwoRunning == Cardinality(Running) <= 2

AnalyzeDoesNotWait ==
    (ret'.op = "analyze" /\ uuids'.analysis # uuids.analysis) =>
        /\ ret'.value = uuids'.analysis
        /\ ret'.value \in Queued'
        /\ Running' = Running

Completed(a) ==
    \/ a \in DOMAIN analysis_results
    \/ a \in DOMAIN analysis_jobs /\ analysis_jobs[a].state = "done"

\* C17: the pool has exactly two workers: analyze returns its id with the
\* job queued, never more than two jobs run at once, and under the pool's
\* scheduling every submitted job completes, so every waiting get_snapshot
\* returns.
C17_TwoWorkersEveryJobCompletes ==
    /\ []AtMostTwoRunning
    /\ [][AnalyzeDoesNotWait]_vars
    /\ \A a \in 1..MaxJobs : (a \in DOMAIN analysis_jobs) ~> Completed(a)
    /\ (waiting # << >>) ~> (waiting = << >>)

\* both workers run, a third job is queued and the caller waits for it
C17_Witness ==
    /\ Cardinality(Running) = 2
    /\ waiting # << >>
    /\ waiting[1].analysis_id \in Queued


(***************************************************************************)
(* Calls in flight.  preview, cancel_preview, apply and revert run one     *)
(* statement at a time, a call per track at most; waiting holds the frame  *)
(* of each call in flight: its arguments, the statement it is at and its   *)
(* local chains.  at_call is the state of the track the call started on.   *)
(* The frames are kept in the order kick, snare; what the calls return   *)
(* to their callers is not recorded in ret.                                *)
(***************************************************************************)
InFlight(track_id) == \E i \in 1..Len(waiting) : waiting[i].track_id = track_id
FrameOf(track_id) ==
    waiting[CHOOSE i \in 1..Len(waiting) : waiting[i].track_id = track_id]
At(track_id, op, pc) ==
    /\ InFlight(track_id)
    /\ FrameOf(track_id).op = op
    /\ FrameOf(track_id).pc = pc

\* the commands of a track, oldest first, without their ids
TrackCommands(track_id) ==
    LET ids == SelectSeq(command_order, LAMBDA c : commands[c].track_id = track_id)
    IN  [i \in 1..Len(ids) |->
           [suggestion_id |-> commands[ids[i]].suggestion_id,
            before_chain |-> commands[ids[i]].before_chain,
            after_chain |-> commands[ids[i]].after_chain,
            applied |-> commands[ids[i]].applied]]

\* the state of one track: its live chain (the default chain before the
\* track is created), its pending baseline, its commands
ViewOf(track_id) ==
    [live |-> ensure_track(tracks, track_id)[track_id].fx_chain,
     baseline |-> IF track_id \in DOMAIN preview_cache
                  THEN << preview_cache[track_id] >> ELSE << >>,
     commands |-> TrackCommands(track_id)]

Goto(track_id, pc, local) ==
    [i \in 1..Len(waiting) |->
       IF waiting[i].track_id = track_id
       THEN [waiting[i] EXCEPT !.pc = pc, !.local = local]
       ELSE waiting[i]]
Left(track_id) == SelectSeq(waiting, LAMBDA f : f.track_id # track_id)

\* a call starts on a track with no call in flight
Call(track_id, op, arg, dry_wet) ==
    /\ ~InFlight(track_id)
    /\ op \in {"preview", "apply"} => ~IsError(_get_suggestion(arg, track_id))
    /\ op = "revert" => arg \in DOMAIN commands /\ commands[arg].track_id = track_id
    /\ LET frame == [track_id |-> track_id, op |-> op, arg |-> arg, dry_wet |-> dry_wet,
                     pc |-> IF op = "cancel_preview" THEN "pop" ELSE "lookup",
                     local |-> << >>, made |-> UnknownId, at_call |-> ViewOf(track_id)]
           present == SelectSeq(<< "kick", "snare" >>,
                                LAMBDA t : t = track_id \/ InFlight(t))
       IN  waiting' = [i \in 1..Len(present) |->
                         IF present[i] = track_id THEN frame
                         ELSE FrameOf(present[i])]
    /\ UNCHANGED << tracks, config, source_vars, analysis_vars, suggestions,
                    command_vars, preview_cache, uuids, ret, pv >>

\* lines 124-125, 143-144, 163-166: the lookup and ensure_track
StepLookup(track_id) ==
    /\ InFlight(track_id)
    /\ FrameOf(track_id).pc = "lookup"
    /\ tracks' = ensure_track(tracks, track_id)
    /\ waiting' = Goto(track_id,
                       IF FrameOf(track_id).op = "preview" THEN "get" ELSE "pop",
                       << >>)
    /\ UNCHANGED << config, source_vars, analysis_vars, suggestions, command_vars,
                    preview_cache, uuids, ret, pv >>

\* line 127: baseline = self._preview_cache.get(track_id)
StepGet(track_id) ==
    /\ At(track_id, "preview", "get")
    /\ waiting' = IF track_id \in DOMAIN preview_cache
                  THEN Goto(track_id, "blend", << preview_cache[track_id] >>)
                  ELSE Goto(track_id, "clone", << >>)
    /\ UNCHANGED << tracks, config, source_vars, analysis_vars, suggestions,
                    command_vars, preview_cache, uuids, ret, pv >>

\* line 129: baseline = track.fx_chain.clone()
StepClone(track_id) ==
    /\ At(track_id, "preview", "clone")
    /\ waiting' = Goto(track_id, "cache", << tracks[track_id].fx_chain >>)
    /\ UNCHANGED << tracks, config, source_vars, analysis_vars, suggestions,
                    command_vars, preview_cache, uuids, ret, pv >>

\* line 130: self._preview_cache[track_id] = baseline
StepCache(track_id) ==
    /\ At(track_id, "preview", "cache")
    /\ preview_cache' = Put(preview_cache, track_id, FrameOf(track_id).local[1])
    /\ waiting' = Goto(track_id, "blend", FrameOf(track_id).local)
    /\ UNCHANGED << tracks, config, source_vars, analysis_vars, suggestions,
                    command_vars, uuids, ret, pv >>

\* line 131: updated = _apply_param_updates(baseline.clone(), ...)
StepBlend(track_id) ==
    /\ At(track_id, "preview", "blend")
    /\ LET frame == FrameOf(track_id)
           updated == _apply_param_updates(frame.local[1],
                                           suggestions[frame.arg].param_updates,
                                           frame.dry_wet)
       IN  IF IsError(updated)
           THEN /\ waiting' = Left(track_id)
                /\ ret' = ret
           ELSE /\ waiting' = Goto(track_id, "store", << updated >>)
                /\ ret' = ret
    /\ UNCHANGED << tracks, config, source_vars, analysis_vars, suggestions,
                    command_vars, preview_cache, uuids, pv >>

\* line 132: track.fx_chain = updated
StepStore(track_id) ==
    /\ At(track_id, "preview", "store")
    /\ tracks' = WithChain(tracks, track_id, FrameOf(track_id).local[1])
    /\ waiting' = Left(track_id)
    /\ ret' = ret
    /\ UNCHANGED << config, source_vars, analysis_vars, suggestions, command_vars,
                    preview_cache, uuids, pv >>

\* the statement after cancel_preview returns to its caller
AfterCancel(op) ==
    CASE op = "apply" -> "before"
      [] op = "revert" -> "restore_before"
      [] OTHER -> "return"

\* seeded fault: the cache is emptied
ClearedCache(cache, track_id) == EmptyDict

\* line 135: self._preview_cache.pop(track_id, None)
PoppedCache(cache, track_id) == Pop(cache, track_id)

\* line 135-137: the baseline is popped; no baseline, no more to do
StepPop(track_id) ==
    /\ InFlight(track_id)
    /\ FrameOf(track_id).pc = "pop"
    /\ preview_cache' = PoppedCache(preview_cache, track_id)
    /\ LET op == FrameOf(track_id).op IN
       IF track_id \in DOMAIN preview_cache
       THEN /\ waiting' = Goto(track_id, "restore", << preview_cache[track_id] >>)
            /\ ret' = ret
       ELSE IF op = "cancel_preview"
       THEN /\ waiting' = Left(track_id)
            /\ ret' = ret
       ELSE /\ waiting' = Goto(track_id, AfterCancel(op), << >>)
            /\ ret' = ret
    /\ UNCHANGED << tracks, config, source_vars, analysis_vars, suggestions,
                    command_vars, uuids, pv >>

\* lines 138-139: track.fx_chain = baseline
StepRestore(track_id) ==
    /\ InFlight(track_id)
    /\ FrameOf(track_id).pc = "restore"
    /\ tracks' = WithChain(ensure_track(tracks, track_id), track_id,
                           FrameOf(track_id).local[1])
    /\ LET op == FrameOf(track_id).op IN
       IF op = "cancel_preview"
       THEN /\ waiting' = Left(track_id)
            /\ ret' = ret
       ELSE /\ waiting' = Goto(track_id, AfterCancel(op), << >>)
            /\ ret' = ret
    /\ UNCHANGED << config, source_vars, analysis_vars, suggestions, command_vars,
                    preview_cache, uuids, pv >>

\* line 147: before = track.fx_chain.clone()
StepBefore(track_id) ==
    /\ At(track_id, "apply", "before")
    /\ waiting' = Goto(track_id, "after", << tracks[track_id].fx_chain >>)
    /\ UNCHANGED << tracks, config, source_vars, analysis_vars, suggestions,
                    command_vars, preview_cache, uuids, ret, pv >>

\* lines 148-149: after = _apply_param_updates(before.clone(), ...) and
\* track.fx_chain = after
StepAfter(track_id) ==
    /\ At(track_id, "apply", "after")
    /\ LET frame == FrameOf(track_id)
           after == _apply_param_updates(frame.local[1],
                                         suggestions[frame.arg].param_updates, MixDen)
       IN  IF IsError(after)
           THEN /\ waiting' = Left(track_id)
                /\ ret' = ret
                /\ tracks' = tracks
           ELSE /\ waiting' = Goto(track_id, "command", << frame.local[1], after >>)
                /\ ret' = ret
                /\ tracks' = WithChain(tracks, track_id, after)
    /\ UNCHANGED << config, source_vars, analysis_vars, suggestions, command_vars,
                    preview_cache, uuids, pv >>

\* lines 151-158: the command is made and stored
StepCommand(track_id) ==
    /\ At(track_id, "apply", "command")
    /\ LET frame == FrameOf(track_id)
           command_id == uuids.command + 1
       IN  /\ commands' = Put(commands, command_id,
                              [command_id |-> command_id,
                               track_id |-> track_id,
                               suggestion_id |-> frame.arg,
                               created_at |-> command_id,
                               before_chain |-> frame.local[1],
                               after_chain |-> frame.local[2],
                               applied |-> TRUE])
           /\ uuids' = [uuids EXCEPT !.command = command_id]
           /\ waiting' = [i \in 1..Len(waiting) |->
                            IF waiting[i].track_id = track_id
                            THEN [waiting[i] EXCEPT !.pc = "append", !.made = command_id]
                            ELSE waiting[i]]
    /\ UNCHANGED << tracks, config, source_vars, analysis_vars, suggestions,
                    command_order, preview_cache, ret, pv >>

\* lines 159-160: the id is appended to the order and returned
StepAppend(track_id) ==
    /\ At(track_id, "apply", "append")
    /\ command_order' = Append(command_order, FrameOf(track_id).made)
    /\ waiting' = Left(track_id)
    /\ ret' = ret
    /\ UNCHANGED << tracks, config, source_vars, analysis_vars, suggestions,
                    commands, preview_cache, uuids, pv >>

\* line 168: track.fx_chain = command.before_chain.clone()
StepRestoreBefore(track_id) ==
    /\ At(track_id, "revert", "restore_before")
    /\ tracks' = WithChain(tracks, track_id,
                           RevertedChain(commands[FrameOf(track_id).arg]))
    /\ waiting' = Goto(track_id, "flag", << >>)
    /\ UNCHANGED << config, source_vars, analysis_vars, suggestions, command_vars,
                    preview_cache, uuids, ret, pv >>

\* line 169: command.applied = False
StepFlag(track_id) ==
    /\ At(track_id, "revert", "flag")
    /\ commands' = [commands EXCEPT
                      ![FrameOf(track_id).arg].applied =
                          RevertedFlag(commands[FrameOf(track_id).arg])]
    /\ waiting' = Left(track_id)
    /\ ret' = ret
    /\ UNCHANGED << tracks, config, source_vars, analysis_vars, suggestions,
                    command_order, preview_cache, uuids, pv >>


(***************************************************************************)
(* SpecThreads: a service in remote mode; a suggestion is taken for "kick", *)
(* then one for "snare", then one caller per track                         *)
(* makes preview, cancel_preview, apply and revert calls, and the          *)
(* statements of the two callers interleave in any order.                  *)
(***************************************************************************)
MaxThreadCommands == 2


NextThreads ==
    \/ uuids.suggestion = 0
          /\ SuggestFresh("kick", "punch", "quick", None, Responds(<< LlmTight >>))
    \/ uuids.suggestion = 1
          /\ SuggestFresh("snare", "punch", "quick", None, Responds(<< LlmTight >>))
    \/ \E a \in OwnSuggestions : Call(a[1], "preview", a[2], 2)
    \/ \E t \in TrackIds : Call(t, "cancel_preview", UnknownId, 0)
    \/ \E a \in OwnSuggestions :
          /\ uuids.command + Cardinality({i \in 1..Len(waiting) :
                                           waiting[i].op = "apply" /\ waiting[i].made = UnknownId}) < MaxThreadCommands
          /\ Call(a[1], "apply", a[2], MixDen)
    \/ \E c \in DOMAIN commands : Call(commands[c].track_id, "revert", c, 0)
    \/ \E t \in TrackIds : StepLookup(t)
    \/ \E t \in TrackIds : StepGet(t)
    \/ \E t \in TrackIds : StepClone(t)
    \/ \E t \in TrackIds : StepCache(t)
    \/ \E t \in TrackIds : StepBlend(t)
    \/ \E t \in TrackIds : StepStore(t)
    \/ \E t \in TrackIds : StepPop(t)
    \/ \E t \in TrackIds : StepRestore(t)
    \/ \E t \in TrackIds : StepBefore(t)
    \/ \E t \in TrackIds : StepAfter(t)
    \/ \E t \in TrackIds : StepCommand(t)
    \/ \E t \in TrackIds : StepAppend(t)
    \/ \E t \in TrackIds : StepRestoreBefore(t)
    \/ \E t \in TrackIds : StepFlag(t)

SpecThreads == InitRemote /\ [][NextThreads]_vars

\* what the call of a frame leaves of its track when nothing else runs
AloneCancelled(view) ==
    [view EXCEPT !.baseline = << >>,
                 !.live = IF view.baseline = << >> THEN view.live ELSE view.baseline[1]]
Alone(frame) ==
    LET view == frame.at_call IN
    CASE frame.op = "preview" ->
           LET base == IF view.baseline = << >> THEN view.live ELSE view.baseline[1]
               updated == _apply_param_updates(base, suggestions[frame.arg].param_updates,
                                               frame.dry_wet)
           IN  [view EXCEPT !.baseline = << base >>,
                            !.live = IF IsError(updated) THEN view.live ELSE updated]
      [] frame.op = "cancel_preview" -> AloneCancelled(view)
      [] frame.op = "apply" ->
           LET cancelled == AloneCancelled(view)
               after == _apply_param_updates(cancelled.live,
                                             suggestions[frame.arg].param_updates, MixDen)
           IN  IF IsError(after) THEN cancelled
               ELSE [cancelled EXCEPT
                       !.live = after,
                       !.commands = Append(@, [suggestion_id |-> frame.arg,
                                               before_chain |-> cancelled.live,
                                               after_chain |-> after,
                                               applied |-> TRUE])]
      [] frame.op = "revert" ->
           LET ids == SelectSeq(command_order,
                                LAMBDA c : commands[c].track_id = frame.track_id)
               k == CHOOSE i \in 1..Len(ids) : ids[i] = frame.arg
           IN  [AloneCancelled(view) EXCEPT
                  !.live = view.commands[k].before_chain,
                  !.commands[k].applied = FALSE]

RunsLikeAlone ==
    \A t \in TrackIds :
        /\ (InFlight(t) /\ ~InFlight(t)') => ViewOf(t)' = Alone(FrameOf(t))
        /\ (~InFlight(t) /\ ~InFlight(t)') => ViewOf(t)' = ViewOf(t)
        /\ (InFlight(t) /\ InFlight(t)' /\ FrameOf(t)' = FrameOf(t)) =>
               ViewOf(t)' = ViewOf(t)

EveryCommandOnce ==
    /\ DOMAIN commands = 1..uuids.command
    /\ \A i, j \in 1..Len(command_order) :
           command_order[i] = command_order[j] => i = j
    /\ \A i \in 1..Len(command_order) : command_order[i] \in DOMAIN commands
    /\ \A c \in DOMAIN commands :
           \/ \E i \in 1..Len(command_order) : command_order[i] = c
           \/ \E i \in 1..Len(waiting) :
                  waiting[i].made = c /\ waiting[i].pc = "append"

\* C18: with one preview, cancel_preview, apply or revert in flight per
\* track at most, calls on different tracks interleaved statement by
\* statement leave each track's live chain, pending baseline and commands as
\* the track's calls leave them when run alone in the same order, and the
\* history holds every created command exactly once.
C18_TracksRunLikeAlone == []EveryCommandOnce /\ [][RunsLikeAlone]_vars

\* the apply of one track has appended its command while the apply of the
\* other track, which made its command first, has not, and a preview of the
\* first track is on its way
C18_Witness ==
    \E i, j \in 1..Len(waiting) :
        /\ waiting[i].pc = "append"
        /\ \E k \in 1..Len(command_order) : command_order[k] > waiting[i].made
        /\ waiting[j].op = "preview" /\ waiting[j].pc = "store"


(***************************************************************************)
(* SpecValidate: suggest is called with profiles and engine modes of every *)
(* kind, with an analysis of its own or on an analysis made before.        *)
(***************************************************************************)
NextValidate ==
    \/ uuids.analysis < MaxAnalysesShort /\ Analyze({"kick"}, "quick")
    \/ \E a \in IssuedOr0(uuids.analysis) : WorkerStart(a)
    \/ \E a \in IssuedOr0(uuids.analysis) : WorkerFinish(a)
    \/ \E t \in TrackIds, p \in Profiles \cup {"bright"}, a \in 1..uuids.analysis,
          e \in EngineInputs : Suggest(t, p, a, e, Unasked)
    \/ \E t \in TrackIds, e \in EngineInputs :
          SuggestFresh(t, "punch", "quick", e, Unasked)

SpecValidate == InitErr /\ [][NextValidate]_vars

RejectedOutright ==
    (ret'.op = "suggest" /\ ret'.error = "ValueError") =>
        /\ tracks' = tracks
        /\ analysis_jobs' = analysis_jobs
        /\ analysis_results' = analysis_results
        /\ suggestions' = suggestions
        /\ uuids' = uuids

\* C19: a suggest call that fails on an unsupported profile or engine mode
\* has created no track, submitted or resolved no analysis job and
\* generated or stored no suggestion.
C19_RejectedBeforeAnyEffect == [][RejectedOutright]_vars


(***************************************************************************)
(* SpecPending: a service in remote mode with suggestions for both tracks, *)
(* one of them naming a parameter its effect does not have; previews and   *)
(* applies are called with ids of every kind, reverts with command ids of  *)
(* every kind, cancel_preview on either track at any time.                 *)
(***************************************************************************)
NextPending ==
    \/ SuggestFresh("kick", "punch", "quick", None, KickResponse)
    \/ SuggestFresh("snare", "punch", "quick", None, Responds(<< LlmTight >>))
    \/ \E a \in OwnSuggestions \cup OtherSuggestions : Preview(a[1], a[2], 2)
    \/ \E t \in TrackIds : CancelPreview(t)
    \/ \E a \in OwnSuggestions \cup OtherSuggestions :
          /\ a \in OwnSuggestions => uuids.command < MaxCommandsShort
          /\ Apply(a[1], a[2])
    \/ \E c \in IssuedOr0(uuids.command) : Revert(c)

SpecPending == InitRemote /\ [][NextPending]_vars

Pending(t) == t \in DOMAIN preview_cache
\* the call finds its suggestion: it is a call on the track
Reaches(t, x) == x \in DOMAIN suggestions /\ suggestions[x].track_id = t
OthersAsBefore(t) == \A u \in TrackIds \ {t} : Pending(u)' = Pending(u)

PendingWindow ==
    /\ ret'.op = "preview" =>
         \A t \in TrackIds, x \in IssuedOr0(uuids.suggestion) :
             Preview(t, x, 2) =>
                 IF Reaches(t, x)
                 THEN /\ Pending(t)'
                      /\ preview_cache'[t] =
                             IF Pending(t) THEN preview_cache[t]
                             ELSE ensure_track(tracks, t)[t].fx_chain
                      /\ OthersAsBefore(t)
                 ELSE preview_cache' = preview_cache
    /\ ret'.op = "cancel_preview" =>
         \A t \in TrackIds :
             CancelPreview(t) =>
                 /\ ~Pending(t)'
                 /\ OthersAsBefore(t)
                 /\ \A u \in DOMAIN tracks \ {t} : tracks'[u] = tracks[u]
                 /\ ~Pending(t) =>
                        /\ tracks' = tracks
                        /\ preview_cache' = preview_cache
                        /\ commands' = commands
                        /\ command_order' = command_order
    /\ ret'.op = "apply" =>
         \A t \in TrackIds, x \in IssuedOr0(uuids.suggestion) :
             Apply(t, x) =>
                 IF Reaches(t, x)
                 THEN ~Pending(t)' /\ OthersAsBefore(t)
                 ELSE preview_cache' = preview_cache
    /\ ret'.op = "revert" =>
         \A c \in IssuedOr0(uuids.command) :
             Revert(c) =>
                 IF c \in DOMAIN commands
                 THEN ~Pending(commands[c].track_id)'
                      /\ OthersAsBefore(commands[c].track_id)
                 ELSE preview_cache' = preview_cache
    /\ ret'.op \notin {"preview", "cancel_preview", "apply", "revert"} =>
         preview_cache' = preview_cache

\* C20: a baseline is pending for a track exactly from its first preview
\* (the chain the track had then) until the next cancel_preview, apply or
\* revert on that track, where a call is on the track when it finds its
\* suggestion or command; a cancel_preview with no pending baseline changes
\* nothing, so after an apply or revert it leaves the live chain, the
\* history and every other track as they are.
C20_BaselinePendingWindow == [][PendingWindow]_vars

\* cancel_preview found no baseline on a track whose live chain is the one
\* an apply wrote, while the other track has a baseline pending
C20_Witness ==
    /\ ret.op = "cancel_preview" /\ ret.at_call = << >>
    /\ \E c \in DOMAIN commands :
           /\ commands[c].applied
           /\ ~Pending(commands[c].track_id)
           /\ tracks[commands[c].track_id].fx_chain = commands[c].after_chain
           /\ \E u \in TrackIds \ {commands[c].track_id} : Pending(u)


(***************************************************************************)
(* audio/mix_render.py: the offline render of one track.  The track's      *)
(* input gain, fader and pan are in units of 1e-6, effect parameters in    *)
(* units of 1/1000 as everywhere.  A decoded sample is the integer read    *)
(* from the chunk together with its width: value / 2^(8 * width - 1).      *)
(***************************************************************************)
_EPSILON == 1

\* abs(value - default_value) > _EPSILON for a value kept in units of
\* unit * 1e-6; the comparison is false for NaN and true for an infinity
BeyondEpsilon(value, default_value, unit) ==
    IF value = NaN THEN FALSE
    ELSE IF value \in {PosInf, -PosInf} THEN TRUE
    ELSE LET delta == value - default_value
         IN  (IF delta < 0 THEN -delta ELSE delta) * unit > _EPSILON

\* seeded fault: the copy shortcut is never taken
is_always_active(track_state) == TRUE
is_track_processing_active(track_state) ==
    \/ BeyondEpsilon(track_state.input_gain_db, 0, 1)
    \/ BeyondEpsilon(track_state.fader_db, 0, 1)
    \/ BeyondEpsilon(track_state.pan, 0, 1)
    \/ \E effect_type \in DOMAIN track_state.fx_chain.effects :
         LET parameters == track_state.fx_chain.effects[effect_type].parameters IN
         \E param_id \in DOMAIN parameters :
            \/ param_id \notin ParamIds(effect_type)
            \/ BeyondEpsilon(parameters[param_id],
                             default_fx_chain.effects[effect_type].parameters[param_id],
                             1000)

\* int.from_bytes(chunk, "little", signed=True)
RECURSIVE FromBytes(_)
FromBytes(chunk) ==
    IF Len(chunk) = 1 THEN (IF chunk[1] >= 128 THEN chunk[1] - 256 ELSE chunk[1])
    ELSE chunk[1] + 256 * FromBytes(Tail(chunk))

\* value.to_bytes(length, "little", signed=True)
ToBytes(value, length) == [i \in 1..length |-> (value \div 256^(i - 1)) % 256]

_decode_one_sample(chunk, sample_width) ==
    [value |-> IF sample_width = 1 THEN chunk[1] - 128 ELSE FromBytes(chunk),
     sample_width |-> sample_width]

\* half of the divisor of a decoded sample: 2^(8 * sample_width - 2)
HalfScale(sample_width) == 64 * 256^(sample_width - 1)

\* value above 1.0 or below -1.0 is cut to it
_clip(sample) ==
    LET half == HalfScale(sample.sample_width) IN
    IF sample.value > 0 /\ sample.value - half > half
      THEN [sample EXCEPT !.value = half + half]
    ELSE IF sample.value < 0 /\ sample.value + half < -half
      THEN [sample EXCEPT !.value = -half - half]
    ELSE sample

\* round(): to the nearest integer, a tie to the even one
RoundHalfEven(floor, remainder, half) ==
    IF remainder < half THEN floor
    ELSE IF remainder > half THEN floor + 1
    ELSE IF floor % 2 = 0 THEN floor ELSE floor + 1

\* width 1: round(clipped * 127.5 + 128.0) is round((255 v + 32768) / 256);
\* other widths: round(clipped * (2^(8w-1) - 1)) is round(v - v / 2^(8w-1)),
\* computed from floor(-v / 2) so that no step leaves 32 bits
_encode_one_sample(sample, sample_width) ==
    LET v == _clip(sample).value
        half == HalfScale(sample_width)
    IN  IF sample_width = 1
        THEN LET value == RoundHalfEven((255 * v + 32768) \div 256,
                                        (255 * v + 32768) % 256, 128)
             IN  << Min(Max(value, 0), 255) >>
        ELSE LET minus_half_v == -((v \div 2) + (v % 2))
                 value == RoundHalfEven(v + (minus_half_v \div half),
                                        2 * (minus_half_v % half) + (v % 2), half)
             IN  ToBytes(Min(Max(value, -half - half), half + (half - 1)), sample_width)


\* render_track_preview_wav on a source file [exists, wav, channels,
\* sample_width, raw]: the target file written and the stages run, or the
\* exception.  _process_track leaves a sample as decoded when every gain is
\* 10 ** 0 (no input gain, no fader, no effect beyond _EPSILON, one channel);
\* any other processed sample is written as the bytes -1, which no file holds.
\* wave.open fails on a file that is no WAV file (EOFError on a short one).
render_track_preview_wav(source, track_state) ==
    IF ~source.exists THEN Raise("FileNotFoundError")
    ELSE IF ~is_track_processing_active(track_state)
      THEN [target |-> source, stages |-> << >>]
    ELSE IF ~source.wav THEN Raise("EOFError")
    ELSE
    LET w == source.sample_width
        count == (Len(source.raw) \div (source.channels * w)) * source.channels
        buffer == [k \in 1..count |->
                     _decode_one_sample(SubSeq(source.raw, (k - 1) * w + 1, k * w), w)]
        effect_active ==
            \E effect_type \in BuiltinEffectType :
              \E param_id \in ParamIds(effect_type) :
                BeyondEpsilon(track_state.fx_chain.effects[effect_type].parameters[param_id],
                              default_fx_chain.effects[effect_type].parameters[param_id],
                              1000)
        as_decoded == /\ track_state.input_gain_db = 0 /\ track_state.fader_db = 0
                      /\ ~effect_active /\ source.channels = 1
        frames == [k \in 1..count |->
                     IF as_decoded THEN _encode_one_sample(_clip(buffer[k]), w)
                     ELSE [i \in 1..w |-> -1]]
    IN  [target |-> [source EXCEPT !.raw = [j \in 1..count * w |->
                                              frames[((j - 1) \div w) + 1][((j - 1) % w) + 1]]],
         stages |-> << "_read_wav", "_process_track", "_write_wav" >>]

(***************************************************************************)
(* SpecPure: the functions that keep no state, each applied to an input    *)
(* drawn when the behaviour starts: a render of a source file under a      *)
(* track state, a decode of a PCM chunk followed by the encode of the      *)
(* decoded sample, and the role inferred from a feature vector.            *)
(***************************************************************************)
ByteInputs == {0, 1, 127, 128, 200, 255}

ChunkInputs ==
    { << a >> : a \in ByteInputs }
      \cup { << a, b >> : a, b \in ByteInputs }
      \cup { << a, b, c >> : a, b, c \in ByteInputs }
      \cup { << a, b, c, d >> : a, b, c, d \in ByteInputs }

SourceInputs ==
    { [exists |-> FALSE, wav |-> FALSE, channels |-> 0, sample_width |-> 0, raw |-> << >>],
      [exists |-> TRUE, wav |-> FALSE, channels |-> 0, sample_width |-> 0,
       raw |-> << 82, 73, 70 >>],
      [exists |-> TRUE, wav |-> TRUE, channels |-> 1, sample_width |-> 2,
       raw |-> << 1, 64, 0, 128, 255 >>],
      [exists |-> TRUE, wav |-> TRUE, channels |-> 2, sample_width |-> 1,
       raw |-> << 0, 255, 128, 1 >>] }

\* track states: the one ensure_track creates, with each of the three dials
\* at, just inside and beyond _EPSILON, and chains as the service leaves them
TrackStateInputs ==
    { [MixerTrackState("kick") EXCEPT !.input_gain_db = g, !.fader_db = f, !.pan = p,
                                      !.fx_chain = c] :
        g \in {0, 1, 2}, f \in {0, -2}, p \in {0, -1, 2},
        c \in { default_fx_chain,
                [default_fx_chain EXCEPT !.effects["eq"].parameters["low_gain_db"] = 1],
                [default_fx_chain EXCEPT !.effects["saturator"].parameters["mix"] = NaN] } }

FeatureInputs ==
    [band_energy_low : {43, 44}, spectral_centroid_hz : {899, 900, 2500, 2501},
     transient_density : {180, 181}, crest_factor_db : {80, 81},
     band_energy_high : {42, 43}]

InitPure ==
    /\ tracks = EmptyDict
    /\ suggestion_mode = "rule-based"
    /\ fallback_to_rule_on_llm_error = TRUE
    /\ llm_suggester = [endpoint |-> ""]
    /\ last_suggestion_source = suggestion_mode
    /\ last_suggestion_fallback_reason = None
    /\ analysis_jobs = EmptyDict
    /\ analysis_results = EmptyDict
    /\ suggestions = EmptyDict
    /\ commands = EmptyDict
    /\ command_order = << >>
    /\ preview_cache = EmptyDict
    /\ uuids = [analysis |-> 0, suggestion |-> 0, command |-> 0]
    /\ waiting = << >>
    /\ pv = EmptyDict
    /\ \/ \E source \in SourceInputs, track_state \in TrackStateInputs :
            ret = [Return("render", 0)
                     EXCEPT !.at_call = << [source |-> source, track_state |-> track_state] >>]
       \/ \E chunk \in ChunkInputs :
            ret = [Return("pcm", 0) EXCEPT !.at_call = << chunk >>]
       \/ \E features \in FeatureInputs :
            ret = [Return("role", 0) EXCEPT !.at_call = << features >>]

\* a pure function applied to the input: the outcome replaces ret
Applied(op, result) ==
    /\ ret' = IF IsError(result) THEN [Fail(op, result.error) EXCEPT !.at_call = ret.at_call]
              ELSE [Return(op, 0) EXCEPT !.at_call = ret.at_call, !.returned = << result >>]
    /\ UNCHANGED << tracks, config, source_vars, analysis_vars, suggestions, command_vars,
                    preview_cache, uuids, waiting, pv >>

RenderTrackPreviewWav ==
    /\ ret.op = "render"
    /\ Applied("render_track_preview_wav",
               render_track_preview_wav(ret.at_call[1].source, ret.at_call[1].track_state))

DecodeOneSample ==
    /\ ret.op = "pcm"
    /\ Applied("_decode_one_sample", _decode_one_sample(ret.at_call[1], Len(ret.at_call[1])))

EncodeOneSample ==
    /\ ret.op = "_decode_one_sample"
    /\ Applied("_encode_one_sample",
               [bytes |-> _encode_one_sample(ret.returned[1], Len(ret.at_call[1]))])

InferRole ==
    /\ ret.op = "role"
    /\ Applied("_infer_role", [role |-> _infer_role(ret.at_call[1])])

NextPure ==
    \/ RenderTrackPreviewWav
    \/ DecodeOneSample
    \/ EncodeOneSample
    \/ InferRole

SpecPure == InitPure /\ [][NextPure]_vars

\* every dial and every effect parameter is within 1e-6 of its default
AtDefaults(track_state) ==
    /\ \A dial \in {track_state.input_gain_db, track_state.fader_db, track_state.pan} :
         dial \in -1..1
    /\ \A effect_type \in BuiltinEffectType :
         \A param_id \in ParamIds(effect_type) :
            track_state.fx_chain.effects[effect_type].parameters[param_id]
              = default_fx_chain.effects[effect_type].parameters[param_id]

\* C21: a render under a track state whose input gain, fader, pan and
\* effect parameters are all within 1e-6 of their defaults writes the bytes
\* of the source and runs no decode, effect or encode stage, whatever the
\* source file holds; the track state ensure_track creates is such a state.
C21_InactiveRenderCopies ==
    /\ \A t \in TrackIds : AtDefaults(ensure_track(EmptyDict, t)[t])
    /\ (/\ ret.op = "render_track_preview_wav"
        /\ ret.at_call[1].source.exists
        /\ AtDefaults(ret.at_call[1].track_state))
       => /\ ret.error = None
          /\ ret.returned[1].target = ret.at_call[1].source
          /\ ret.returned[1].stages = << >>

\* a render of a 16-bit file under a track state with a dial exactly
\* 1e-6 off its default has copied the file
C21_Witness ==
    /\ ret.op = "render_track_preview_wav"
    /\ ret.at_call[1].source.wav /\ ret.at_call[1].source.sample_width = 2
    /\ ret.at_call[1].track_state.pan = -1
    /\ AtDefaults(ret.at_call[1].track_state)
    /\ ret.error = None
    /\ ret.returned[1].target = ret.at_call[1].source

\* C22: for a chunk of 1, 2, 3 or 4 bytes, encoding the decoded sample at
\* the same width gives the bytes of the chunk.
C22_PcmRoundTrip ==
    ret.op = "_encode_one_sample" => ret.returned[1].bytes = ret.at_call[1]

\* C25: the role is bass when low-band energy >= 0.44 and centroid < 900,
\* otherwise drums when transient density > 0.18 and crest factor > 8,
\* otherwise lead when high-band energy > 0.42 and centroid > 2500,
\* otherwise harmonic; every vector has exactly one role.
C25_RoleFirstMatch ==
    ret.op = "_infer_role" =>
        LET f == ret.at_call[1]
            role == ret.returned[1].role
            bass == f.band_energy_low >= 44 /\ f.spectral_centroid_hz < 900
            drums == f.transient_density > 180 /\ f.crest_factor_db > 80
            lead == f.band_energy_high > 42 /\ f.spectral_centroid_hz > 2500
        IN  /\ role \in {"bass", "drums", "lead", "harmonic"}
            /\ role = "bass" <=> bass
            /\ role = "drums" <=> ~bass /\ drums
            /\ role = "lead" <=> ~bass /\ ~drums /\ lead
            /\ role = "harmonic" <=> ~bass /\ ~drums /\ ~lead

\* a vector that meets the bass and the drums condition has been given bass
C25_Witness ==
    /\ ret.op = "_infer_role"
    /\ ret.at_call[1].band_energy_low >= 44 /\ ret.at_call[1].spectral_centroid_hz < 900
    /\ ret.at_call[1].transient_density > 180 /\ ret.at_call[1].crest_factor_db > 80
    /\ ret.returned[1].role = "bass"


\* C23: get_snapshot of a quick analysis of a track whose buffer is the
\* default provider's, non-empty and all zeros, returns lufs, rms_dbfs and
\* peak_dbfs of -70.0 and band energies of 0.0.
C23_SilentBufferFeatures ==
    (/\ ret.op = "get_snapshot" /\ ret.error = None
     /\ ret.returned[1].mode = "quick"
     /\ "t1" \in DOMAIN ret.returned[1].track_features)
    => LET features == ret.returned[1].track_features["t1"] IN
       /\ features.lufs = -700 /\ features.rms_dbfs = -700 /\ features.peak_dbfs = -700
       /\ features.band_energy_low = 0 /\ features.band_energy_mid = 0
       /\ features.band_energy_high = 0


(***************************************************************************)
(* Histories of several commands on one track (checked under Spec).        *)
(***************************************************************************)
\* the commands of the track of a command created before it, and after it
Older(c) ==
    {d \in DOMAIN commands : /\ commands[d].track_id = commands[c].track_id
                             /\ commands[d].created_at < commands[c].created_at}
Newer(c) ==
    {d \in DOMAIN commands : /\ commands[d].track_id = commands[c].track_id
                             /\ commands[d].created_at > commands[c].created_at}

Newest(cs) == CHOOSE d \in cs : \A e \in cs : commands[e].created_at <= commands[d].created_at
Oldest(cs) == CHOOSE d \in cs : \A e \in cs : commands[e].created_at >= commands[d].created_at

\* the command is the next to revert in reverse order of creation: every
\* command of its track created after it has been reverted, and neither it
\* nor any command created before it has
NextToUnwind(c) ==
    /\ commands[c].applied
    /\ \A d \in Older(c) : commands[d].applied
    /\ \A d \in Newer(c) : ~commands[d].applied

LifoRevertUnwinds ==
    \A c \in DOMAIN commands :
        (NextToUnwind(c) /\ ret'.op = "revert" /\ ret'.error = None /\ ret'.value = c) =>
            LET live == tracks'[commands[c].track_id].fx_chain IN
            IF Older(c) # {}
            THEN live = commands[Newest(Older(c))].after_chain
            ELSE /\ live = commands[c].before_chain
                 /\ live = default_fx_chain

\* C26: after n successive applies on one track, with any suggestions and
\* with previews in between, reverting the n commands in reverse order of
\* creation leaves the live chain, after each revert, equal to the
\* after_chain of the newest command still applied, and after the last
\* revert equal to the chain the track had before its first apply.
C26_LifoRevertsUnwind == [][LifoRevertUnwinds]_vars

\* two commands of one track, the second applied after a preview was left
\* pending, have both been reverted, the older one last
C26_Witness ==
    /\ ret.op = "revert" /\ ret.error = None
    /\ ret.value \in DOMAIN commands
    /\ Older(ret.value) = {} /\ Newer(ret.value) # {}
    /\ \A d \in Newer(ret.value) :
           /\ ~commands[d].applied
           /\ commands[d].before_chain = commands[ret.value].after_chain
           /\ commands[d].after_chain # commands[d].before_chain
    /\ commands[ret.value].after_chain # commands[ret.value].before_chain
    /\ tracks[commands[ret.value].track_id].fx_chain = default_fx_chain


CommandsOf(track_id) == {c \in DOMAIN commands : commands[c].track_id = track_id}
AppliedOf(track_id) == {c \in CommandsOf(track_id) : commands[c].applied}

\* C27: in every reachable state a track with commands and no pending
\* preview has a live chain equal to the after_chain of its most recently
\* created command with applied = true or, when none of its commands is
\* applied, to the before_chain of its oldest command.
C27_FlagsDescribeLiveChain ==
    \A t \in DOMAIN tracks :
        (t \notin DOMAIN preview_cache /\ CommandsOf(t) # {}) =>
            tracks[t].fx_chain =
                IF AppliedOf(t) # {}
                THEN commands[Newest(AppliedOf(t))].after_chain
                ELSE commands[Oldest(CommandsOf(t))].before_chain


\* the call failed while it applied the parameter updates of a suggestion
\* stored for the track, and left the live chain, the pending baseline and
\* the history as they were
FailedUpdateChangesNothing ==
    ret'.error = "KeyError" =>
    \A a \in OwnSuggestions :
        LET live == ensure_track(tracks, a[1])[a[1]].fx_chain
            untouched == /\ tracks'[a[1]].fx_chain = live
                         /\ preview_cache' = preview_cache
                         /\ UNCHANGED command_vars
        IN  /\ \A d \in DryWets : Preview(a[1], a[2], d) => untouched
            /\ Apply(a[1], a[2]) => untouched

\* C28: when preview or apply fails while applying the parameter updates of
\* a stored suggestion that names a parameter id the effect does not have,
\* the live chain of the track, its pending preview baseline (present or
\* absent) and the command history are exactly as they were before the call.
C28_FailedUpdateNoEffect == [][FailedUpdateChangesNothing]_vars


(***************************************************************************)
(* service.py: get_snapshot and suggest statement by statement.  One call  *)
(* is in flight per track at most (the host serializes per track_id); a    *)
(* get_snapshot call is made for the caller that serves the track.  The    *)
(* frame of a call holds its arguments, its position and its locals.       *)
(***************************************************************************)
CallService(track_id, op, analysis_id, engine_mode, result) ==
    /\ ~InFlight(track_id)
    /\ tracks' = IF op = "suggest" THEN ensure_track(tracks, track_id) ELSE tracks
    /\ LET together(f) == f.op = op /\ f.arg = analysis_id
           frame == [track_id |-> track_id, op |-> op, arg |-> analysis_id,
                     engine_mode |-> engine_mode, result |-> result,
                     pc |-> "results", local |-> << >>,
                     at_call |-> [pending |-> analysis_id \in DOMAIN analysis_jobs,
                                  shared |-> \E i \in 1..Len(waiting) :
                                                together(waiting[i])]]
           present == SelectSeq(<< "kick", "snare" >>,
                                LAMBDA t : t = track_id \/ InFlight(t))
       IN  waiting' = [i \in 1..Len(present) |->
                         IF present[i] = track_id THEN frame
                         ELSE [FrameOf(present[i]) EXCEPT
                                 !.at_call.shared = @ \/ together(FrameOf(present[i]))]]
    /\ UNCHANGED << config, source_vars, analysis_vars, suggestions, command_vars,
                    preview_cache, uuids, ret, pv >>

\* get_snapshot hands the snapshot to its caller: it is returned, or suggest
\* goes on with lines 107-117 (the features of the track, the target mode).
\* The frames and the outcome after it.
Resume(track_id, snapshot) ==
    LET frame == FrameOf(track_id) IN
    IF frame.op = "get_snapshot"
    THEN [waiting |-> Left(track_id),
          ret |-> [Return("get_snapshot", snapshot.analysis_id) EXCEPT
                     !.returned = << snapshot >>,
                     !.at_call = << [frame.at_call EXCEPT !.shared = @ \/ \E i \in 1..Len(waiting) : waiting[i].track_id # track_id /\ waiting[i].op = frame.op /\ waiting[i].arg = frame.arg] >>]]
    ELSE IF track_id \notin DOMAIN snapshot.track_features
    THEN [waiting |-> Left(track_id), ret |-> Fail("suggest", "KeyError")]
    ELSE [waiting |-> Goto(track_id, "reset", << snapshot.track_features[track_id] >>),
          ret |-> ret]

\* what a call that raises leaves
Raised(track_id, kind) ==
    [Fail(FrameOf(track_id).op, kind) EXCEPT !.at_call = << FrameOf(track_id).at_call >>]

\* lines 77-79: result = self._analysis_results.get(analysis_id)
StepResults(track_id) ==
    /\ InFlight(track_id) /\ FrameOf(track_id).pc = "results"
    /\ LET analysis_id == FrameOf(track_id).arg IN
       IF analysis_id \in DOMAIN analysis_results
       THEN /\ waiting' = Resume(track_id, analysis_results[analysis_id]).waiting
            /\ ret' = Resume(track_id, analysis_results[analysis_id]).ret
       ELSE /\ waiting' = Goto(track_id, "jobs", << >>)
            /\ ret' = ret
    /\ UNCHANGED << tracks, config, source_vars, analysis_vars, suggestions,
                    command_vars, preview_cache, uuids, pv >>

\* lines 81-83: job = self._analysis_jobs.get(analysis_id), or KeyError
StepJobs(track_id) ==
    /\ InFlight(track_id) /\ FrameOf(track_id).pc = "jobs"
    /\ IF FrameOf(track_id).arg \in DOMAIN analysis_jobs
       THEN /\ waiting' = Goto(track_id, "result", << >>)
            /\ ret' = ret
       ELSE /\ waiting' = Left(track_id)
            /\ ret' = Raised(track_id, "KeyError")
    /\ UNCHANGED << tracks, config, source_vars, analysis_vars, suggestions,
                    command_vars, preview_cache, uuids, pv >>

\* lines 85-87: job.result() returns once the job is done (a job that left
\* the dict was done, and its snapshot is the one stored); the snapshot is
\* given the id and stored
StepResult(track_id) ==
    /\ InFlight(track_id) /\ FrameOf(track_id).pc = "result"
    /\ LET analysis_id == FrameOf(track_id).arg
           completed == IF analysis_id \in DOMAIN analysis_jobs
                        THEN [JobResult(analysis_id) EXCEPT !.analysis_id = analysis_id]
                        ELSE analysis_results[analysis_id]
       IN  /\ analysis_id \in DOMAIN analysis_jobs =>
                  analysis_jobs[analysis_id].state = "done"
           /\ analysis_results' = Put(analysis_results, analysis_id, completed)
           /\ waiting' = Goto(track_id, "del", << completed >>)
    /\ UNCHANGED << tracks, config, source_vars, analysis_jobs, suggestions,
                    command_vars, preview_cache, uuids, ret, pv >>

\* lines 88-89: del self._analysis_jobs[analysis_id], KeyError if it is gone
StepDel(track_id) ==
    /\ InFlight(track_id) /\ FrameOf(track_id).pc = "del"
    /\ LET analysis_id == FrameOf(track_id).arg IN
       IF analysis_id \in DOMAIN analysis_jobs
       THEN /\ analysis_jobs' = Pop(analysis_jobs, analysis_id)
            /\ waiting' = Resume(track_id, FrameOf(track_id).local[1]).waiting
            /\ ret' = Resume(track_id, FrameOf(track_id).local[1]).ret
       ELSE /\ analysis_jobs' = analysis_jobs
            /\ waiting' = Left(track_id)
            /\ ret' = Raised(track_id, "KeyError")
    /\ UNCHANGED << tracks, config, source_vars, analysis_results, suggestions,
                    command_vars, preview_cache, uuids, pv >>

\* line 220: self._last_suggestion_fallback_reason = None
StepReset(track_id) ==
    /\ At(track_id, "suggest", "reset")
    /\ last_suggestion_fallback_reason' = None
    /\ waiting' = Goto(track_id, "source", FrameOf(track_id).local)
    /\ UNCHANGED << tracks, config, last_suggestion_source, analysis_vars, suggestions,
                    command_vars, preview_cache, uuids, ret, pv >>

\* lines 221-233: the strategy runs and self._last_suggestion_source is set
StepSource(track_id) ==
    /\ At(track_id, "suggest", "source")
    /\ LET frame == FrameOf(track_id)
           target_mode == normalize_suggestion_engine(
                            IF frame.engine_mode \in {None, ""} THEN suggestion_mode
                            ELSE frame.engine_mode)
           gen == _generate_suggestions(target_mode.mode, track_id, "punch",
                                        frame.local[1], frame.result)
       IN  /\ last_suggestion_source' = gen.source
           /\ IF gen.error # None
              THEN /\ waiting' = Left(track_id)
                   /\ ret' = [Raised(track_id, gen.error) EXCEPT !.trace = gen.trace]
              ELSE /\ waiting' = Goto(track_id,
                                      IF gen.fallback_reason # << >> THEN "reason"
                                      ELSE "suggestions",
                                      << gen >>)
                   /\ ret' = ret
    /\ UNCHANGED << tracks, config, last_suggestion_fallback_reason, analysis_vars,
                    suggestions, command_vars, preview_cache, uuids, pv >>

\* line 234: self._last_suggestion_fallback_reason = fallback_reason
StepReason(track_id) ==
    /\ At(track_id, "suggest", "reason")
    /\ last_suggestion_fallback_reason' = FrameOf(track_id).local[1].fallback_reason[1].text
    /\ waiting' = Goto(track_id, "suggestions", FrameOf(track_id).local)
    /\ UNCHANGED << tracks, config, last_suggestion_source, analysis_vars, suggestions,
                    command_vars, preview_cache, uuids, ret, pv >>

\* lines 235-238 and 118-120: the list is made, stored and returned
StepSuggestions(track_id) ==
    /\ At(track_id, "suggest", "suggestions")
    /\ LET gen == FrameOf(track_id).local[1]
           list == Numbered(gen.suggestions)
       IN  /\ suggestions' = Stored(list)
           /\ uuids' = [uuids EXCEPT !.suggestion = @ + Len(list)]
           /\ waiting' = Left(track_id)
           /\ ret' = [Return("suggest", Len(list)) EXCEPT
                        !.returned = list, !.trace = gen.trace,
                        !.transport_calls = gen.transport_calls,
                        !.at_call = << FrameOf(track_id).at_call >>]
    /\ UNCHANGED << tracks, config, source_vars, analysis_vars, command_vars,
                    preview_cache, pv >>

(***************************************************************************)
(* SpecRace: a service in remote mode with the fallback on.  Both tracks   *)
(* are analysed in one job; the caller of each track asks for the snapshot *)
(* and for suggestions from it, "kick" by the rules and "snare" from an    *)
(* endpoint that times out or answers, and the statements of the two       *)
(* callers interleave in any order.                                        *)
(***************************************************************************)
NextRace ==
    \/ uuids.analysis < MaxAnalysesShort /\ Analyze({"kick", "snare"}, "quick")
    \/ \E a \in IssuedOr0(uuids.analysis) : WorkerStart(a)
    \/ \E a \in IssuedOr0(uuids.analysis) : WorkerFinish(a)
    \/ \E t \in TrackIds, a \in 1..uuids.analysis :
          CallService(t, "get_snapshot", a, None, Unasked)
    \/ \E a \in 1..uuids.analysis :
          /\ Room("kick", 3)
          /\ CallService("kick", "suggest", a, "rule-based", Unasked)
    \/ \E a \in 1..uuids.analysis,
          r \in {Raises("TimeoutError", Msg("llm timeout", 11)), Responds(<< LlmTight >>)} :
          /\ Room("snare", 3)
          /\ CallService("snare", "suggest", a, None, r)
    \/ \E t \in TrackIds : StepResults(t)
    \/ \E t \in TrackIds : StepJobs(t)
    \/ \E t \in TrackIds : StepResult(t)
    \/ \E t \in TrackIds : StepDel(t)
    \/ \E t \in TrackIds : StepReset(t)
    \/ \E t \in TrackIds : StepSource(t)
    \/ \E t \in TrackIds : StepReason(t)
    \/ \E t \in TrackIds : StepSuggestions(t)

SpecRace == InitRemote /\ [][NextRace]_vars

\* C29: two get_snapshot calls that run concurrently for the same pending
\* analysis id both return the completed snapshot, neither fails with a
\* not-found error, and once both have returned the id is in the result
\* cache and no longer in the pending set.
C29_ConcurrentSnapshotsBothReturn ==
    (/\ ret.op = "get_snapshot" /\ ret.at_call # << >>
     /\ ret.at_call[1].pending /\ ret.at_call[1].shared)
    => /\ ret.error = None
       /\ ret.returned # << >>
       /\ ret.returned[1].analysis_id \in DOMAIN analysis_results
       /\ ret.returned[1] = analysis_results[ret.returned[1].analysis_id]
       /\ (~\E i \in 1..Len(waiting) : waiting[i].op = "get_snapshot") =>
              ret.returned[1].analysis_id \notin DOMAIN analysis_jobs

\* C30: once the concurrent suggest calls for different tracks have
\* returned, the recorded fallback reason is non-null exactly when the
\* last-source tag is "rule-based-fallback".
C30_InspectionStateConsistent ==
    (waiting = << >> /\ ret.op = "suggest") =>
        (last_suggestion_fallback_reason # None
           <=> last_suggestion_source = "rule-based-fallback")

=============================================================================
